---- MODULE Spec2Model ----
\* hypermind: membership and message-dissemination engine.
\*
\* The node modelled here is the MessageHandler (validateMessage, handleHeartbeat,
\* handleLeave, handleChat) driven by the connection manager and gossip engine
\* (connection / data / close events, relayMessage, the periodic tick, shutdown).
\* The peer manager, the relay dedup filter, the signature primitives and the
\* construction of signed self-heartbeats are collaborators of the handler whose
\* code is not among the sources; they are modelled from the specification.
EXTENDS Integers, Sequences, FiniteSets, TLC

\* ------------------------------------------------------------------ bounds
MaxTime == 500
MaxSweepTime == 3500
MaxRateTime == 10500
MaxChan == 2
MaxAdvSeq == 2
MaxEvents == 3
MaxRateEvents == 8
MaxNetEvents == 1
MaxChainEvents == 1
MaxLeaveEvents == 4
MaxCapEvents == 6
MaxPairEvents == 6

\* ------------------------------------------------------- program constants
MAX_RELAY_HOPS == 3
HEARTBEAT_INTERVAL == 500
LIVENESS_TTL == 2500
SHUTDOWN_GRACE == 500
MAX_PEERS == 5
MAX_CONTENT == 140
CHAT_RATE_LIMIT == 10000
POST_MAX == 5

\* ------------------------------------------------------------- identities
Node == {"A", "B", "C", "D"}
Adv == "M"
Guest == "N"
Ids == Node \cup {Adv, Guest}
NoId == ""

\* ---------------------------------------------------------------- crypto
NoSig == [by |-> "", over |-> ""]

signMessage(payload, signer) == [by |-> signer, over |-> payload]

createPublicKey(id) == id

verifySignature(payload, sig, key) == sig.by = key /\ sig.over = payload

PowNonce(id) == "pow:" \o id

verifyPoW(id, nonce) == nonce = PowNonce(id)

SeqPayload(seq) == "seq:" \o ToString(seq)

LeavePayload(id) == "type:LEAVE:" \o id

\* -------------------------------------------------------------- messages
\* One record shape for every wire message; a field a message does not carry
\* holds "" (strings), NoSig, or Undef (numbers). extra: the message has a key
\* outside the allowlist of its type; oversize: its serialization is longer
\* than MAX_MESSAGE_SIZE; scalar: the parsed line is not an object.
Undef == -1000

NoMsg ==
  [type |-> "", id |-> "", seq |-> Undef, hops |-> Undef, nonce |-> "",
   sig |-> NoSig, sender |-> "", content |-> "", timestamp |-> Undef,
   scope |-> "", extra |-> FALSE, oversize |-> FALSE, scalar |-> FALSE]

Heartbeat(id, seq, hops, nonce, sig) ==
  [NoMsg EXCEPT !.type = "HEARTBEAT", !.id = id, !.seq = seq, !.hops = hops,
                !.nonce = nonce, !.sig = sig]

Leave(id, hops, sig) ==
  [NoMsg EXCEPT !.type = "LEAVE", !.id = id, !.hops = hops, !.sig = sig]

Chat(scope, sender, content, timestamp, id, sig, hops) ==
  [NoMsg EXCEPT !.type = "CHAT", !.scope = scope, !.sender = sender,
                !.content = content, !.timestamp = timestamp, !.id = id,
                !.sig = sig, !.hops = hops]

IsNumber(x) == x # Undef

\* hops < MAX_RELAY_HOPS in JavaScript: false when hops is undefined.
LessThan(x, y) == IsNumber(x) /\ x < y

validateMessage_TypeOnly(msg) ==
  ~msg.scalar /\ msg.type \in {"HEARTBEAT", "LEAVE", "CHAT"}

validateMessage(msg) ==
  /\ ~msg.scalar
  /\ msg.type # ""
  /\ ~msg.oversize
  /\ CASE msg.type = "HEARTBEAT" ->
            /\ ~msg.extra
            /\ msg.sender = "" /\ msg.content = "" /\ msg.timestamp = Undef
            /\ msg.scope = ""
            /\ msg.id # ""
            /\ IsNumber(msg.seq)
            /\ IsNumber(msg.hops)
            /\ msg.nonce # ""
            /\ msg.sig # NoSig
       [] msg.type = "LEAVE" ->
            /\ ~msg.extra
            /\ msg.sender = "" /\ msg.content = "" /\ msg.timestamp = Undef
            /\ msg.scope = "" /\ msg.seq = Undef /\ msg.nonce = ""
            /\ msg.id # ""
            /\ IsNumber(msg.hops)
            /\ msg.sig # NoSig
       [] msg.type = "CHAT" ->
            /\ ~msg.extra
            /\ msg.seq = Undef /\ msg.nonce = ""
            /\ msg.sender # ""
            /\ msg.content # ""
            /\ Len(msg.content) <= MAX_CONTENT
            /\ IsNumber(msg.timestamp)
       [] OTHER -> FALSE

\* ------------------------------------------------------------ node state
NoPeer == [present |-> FALSE, seq |-> 0, lastSeen |-> 0]

EmptyBloom == [cur |-> {}, prev |-> {}]

\* The request handled by the chat endpoint and the response it sent; status 0
\* when the step is not an HTTP request.
NoHttp == [status |-> 0, error |-> "", content |-> "", scope |-> ""]

NewNode(n, phase) ==
  [phase |-> phase, mySeq |-> 0, ticked |-> TRUE, exitAt |-> 0,
   exitCode |-> Undef,
   conns |-> {},
   peerId |-> [m \in Ids |-> NoId],
   peers |-> [p \in Ids |-> IF p = n
                             THEN [present |-> TRUE, seq |-> 0, lastSeen |-> 0]
                             ELSE NoPeer],
   bloom |-> EmptyBloom,
   rate |-> [p \in Ids |-> [set |-> FALSE, count |-> 0, windowStart |-> 0]],
   hi |-> [p \in Ids |-> -1], left |-> {},
   rel1 |-> {}, rel2 |-> {}, em1 |-> {}, em2 |-> {}, emt |-> <<>>,
   chatHistory |-> <<>>, posted |-> <<>>,
   op |-> "", src |-> NoId, inp |-> <<>>, wr |-> <<>>, ev |-> <<>>,
   diag |-> {}, acc |-> {}, http |-> NoHttp]

VARIABLES node, chan, now, known, links, quota

vars == <<node, chan, now, known, links, quota>>

\* --------------------------------------------------------- peer manager
getPeer(r, id) == r.peers[id]

hasPeer(r, id) == r.peers[id].present

size(r) == Cardinality({p \in Ids : r.peers[p].present})

canAcceptPeer(r, id) == size(r) < MAX_PEERS

Max(a, b) == IF a >= b THEN a ELSE b

addOrUpdatePeer(r, id, seq, t, msg) ==
  IF r.peers[id].present /\ seq <= r.peers[id].seq THEN r
  ELSE IF ~r.peers[id].present /\ ~(size(r) < MAX_PEERS) THEN r
  ELSE [r EXCEPT !.peers[id] = [present |-> TRUE, seq |-> seq, lastSeen |-> t],
                 !.hi[id] = Max(@, seq),
                 !.acc = @ \cup {msg}]

removePeer(r, id) == [r EXCEPT !.peers[id] = NoPeer]

\* ---------------------------------------------------- relay dedup filter
HeartbeatMark(id, seq) == <<id, ToString(seq)>>

LeaveMark(id) == <<id, "leave">>

ChatMark(id) == <<id, "chat">>

hasRelayed(r, mark) == mark \in r.bloom.cur \/ mark \in r.bloom.prev

markRelayed(r, mark) == [r EXCEPT !.bloom.cur = @ \cup {mark}]

\* ------------------------------------------------ outputs of one handler
increment(r, counter) == [r EXCEPT !.diag = @ \cup {counter}]

broadcastUpdate(r) ==
  [r EXCEPT !.ev = Append(@, [type |-> "MEMBERSHIP", count |-> size(r),
                              id |-> NoId, msg |-> NoMsg, src |-> NoId])]

chatSystemFn(r, what, id) ==
  [r EXCEPT !.ev = Append(@, [type |-> "SYSTEM:" \o what, count |-> 0,
                              id |-> id, msg |-> NoMsg, src |-> NoId])]

chatCallback(r, msg, src) ==
  [r EXCEPT !.ev = Append(@, [type |-> "CHAT", count |-> 0, id |-> msg.id,
                              msg |-> msg, src |-> src]),
            !.em2 = IF msg.scope = "GLOBAL" THEN @ \cup ({msg.id} \cap r.em1) ELSE @,
            !.em1 = IF msg.scope = "GLOBAL" THEN @ \cup {msg.id} ELSE @]

RECURSIVE WriteAll(_, _, _, _)
WriteAll(r, dests, msg, kind) ==
  IF dests = {} THEN r
  ELSE LET d == CHOOSE x \in dests : TRUE
       IN WriteAll([r EXCEPT !.wr = Append(@, [to |-> d, msg |-> msg,
                                                nl |-> kind # "hello",
                                                kind |-> kind])],
                   dests \ {d}, msg, kind)

NoteRelay(r, msg, dests) ==
  LET keys == {<<msg.type, msg.id, msg.seq, d>> : d \in dests \cup {NoId}}
  IN [r EXCEPT !.rel2 = @ \cup (keys \cap r.rel1), !.rel1 = @ \cup keys]

relayMessage_ToAll(r, msg, src) ==
  WriteAll(NoteRelay(r, msg, r.conns), r.conns, msg, "relay")

relayMessage(r, msg, src) ==
  WriteAll(NoteRelay(r, msg, r.conns \ {src}), r.conns \ {src}, msg, "relay")

\* ------------------------------------------------------- message handler
ENABLE_CHAT == TRUE

\* hops < MAX_RELAY_HOPS, the relay condition of the three handlers.
underHopLimit_Inclusive(hops) == IsNumber(hops) /\ hops <= MAX_RELAY_HOPS

underHopLimit_Direct(hops) == LessThan(hops, 0)

underHopLimit(hops) == LessThan(hops, MAX_RELAY_HOPS)

heartbeatSignatureOk_Unchecked(msg) == TRUE

heartbeatSignatureOk(msg) ==
  verifySignature(SeqPayload(msg.seq), msg.sig, createPublicKey(msg.id))

relayHeartbeat_Unmarked(r, msg, src) ==
  IF underHopLimit(msg.hops)
  THEN relayMessage(increment(r, "heartbeatsRelayed"),
                    [msg EXCEPT !.hops = msg.hops + 1], src)
  ELSE r

relayHeartbeat(r, msg, src) ==
  IF underHopLimit(msg.hops) /\ ~hasRelayed(r, HeartbeatMark(msg.id, msg.seq))
  THEN relayMessage(
         increment(markRelayed(r, HeartbeatMark(msg.id, msg.seq)),
                   "heartbeatsRelayed"),
         [msg EXCEPT !.hops = msg.hops + 1], src)
  ELSE r

\* The cap test of handleHeartbeat: only an id that is not stored is held to it.
capAllows_Always(r, stored, id) == TRUE

capAllows(r, stored, id) == stored.present \/ canAcceptPeer(r, id)

\* stored && seq <= stored.seq: a removed id has no stored seq.
duplicateSeq_Remembered(r, id, seq) == seq <= r.hi[id]

duplicateSeq(r, id, seq) == getPeer(r, id).present /\ seq <= getPeer(r, id).seq

\* if (wasNew): the guard of the membership-change announcement.
membershipChangeDue_Always(wasNew) == TRUE

membershipChangeDue(wasNew) == wasNew

handleHeartbeat(r, msg, src, t) ==
  LET id == msg.id
      seq == msg.seq
      hops == msg.hops
      r0 == increment(r, "heartbeatsReceived")
      stored == getPeer(r0, id)
  IN IF duplicateSeq(r0, id, seq)
     THEN increment(r0, "duplicateSeq")
     ELSE IF ~verifyPoW(id, msg.nonce) THEN increment(r0, "invalidPoW")
     ELSE IF msg.sig = NoSig THEN r0
     ELSE IF ~capAllows(r0, stored, id) THEN r0
     ELSE IF ~heartbeatSignatureOk(msg) THEN increment(r0, "invalidSig")
     ELSE LET r1 == IF hops = 0 THEN [r0 EXCEPT !.peerId[src] = id] ELSE r0
              r2 == addOrUpdatePeer(r1, id, seq, t, msg)
              wasNew == ~r1.peers[id].present /\ r2.peers[id].present
              r3 == IF membershipChangeDue(wasNew)
                    THEN LET b == broadcastUpdate(increment(r2, "newPeersAdded"))
                         IN IF ENABLE_CHAT /\ hops = 0
                            THEN chatSystemFn(b, "connected", id)
                            ELSE b
                    ELSE r2
          IN relayHeartbeat(r3, msg, src)

\* The test that short-circuits handleLeave before the signature is verified.
leaveTargetKnown_Always(r, id) == TRUE

leaveTargetKnown(r, id) == hasPeer(r, id)

\* The relay condition of handleLeave.
leaveRelayDue_Unmarked(r, msg) == underHopLimit(msg.hops)

leaveRelayDue(r, msg) ==
  underHopLimit(msg.hops) /\ ~hasRelayed(r, LeaveMark(msg.id))

handleLeave(r, msg, src, t) ==
  LET id == msg.id
      hops == msg.hops
      r0 == increment(r, "leaveMessages")
  IN IF msg.sig = NoSig THEN r0
     ELSE IF ~leaveTargetKnown(r0, id) THEN r0
     ELSE IF ~verifySignature(LeavePayload(id), msg.sig, createPublicKey(id))
          THEN increment(r0, "invalidSig")
     ELSE LET r1 == broadcastUpdate(removePeer([r0 EXCEPT !.left = @ \cup {id}], id))
              r2 == IF ENABLE_CHAT /\ hops = 0
                    THEN chatSystemFn(r1, "disconnected", id)
                    ELSE r1
          IN IF leaveRelayDue(r2, msg)
             THEN relayMessage(markRelayed(r2, LeaveMark(id)),
                               [msg EXCEPT !.hops = hops + 1], src)
             ELSE r2

CHAT_WINDOW == 10000
CHAT_MAX == 5
CHAT_FRESHNESS == 60000

Sha256(text) == "sha256(" \o text \o ")"

ChatId(sender, content, timestamp) ==
  Sha256(sender \o content \o ToString(timestamp))

ChatPayload(id) == "chat:" \o id

Abs(x) == IF x < 0 THEN -x ELSE x

chatIdMatches_Unchecked(msg) == TRUE

chatIdMatches(msg) == ChatId(msg.sender, msg.content, msg.timestamp) = msg.id

chatSeen_Never(r, msg) == FALSE

chatSeen(r, msg) == hasRelayed(r, ChatMark(msg.id))

\* The freshness test of a GLOBAL chat handled at time t.
chatFresh_Strict(msg, t) == Abs(t - msg.timestamp) < CHAT_FRESHNESS

chatFresh(msg, t) == ~(Abs(t - msg.timestamp) > CHAT_FRESHNESS)

\* The LOCAL branch once the sender is the socket's bound peer: publish only.
acceptLocal_Relayed(r, msg, src) ==
  relayMessage(chatCallback(r, msg, src), [msg EXCEPT !.hops = @ + 1], src)

acceptLocal(r, msg, src) == chatCallback(r, msg, src)

handleChat(r, msg, src, t) ==
  LET sender == msg.sender
      id == msg.id
      hops == msg.hops
      stored == r.rate[sender]
      rateData == IF ~stored.set \/ t - stored.windowStart > CHAT_WINDOW
                  THEN [set |-> TRUE, count |-> 0, windowStart |-> t]
                  ELSE stored
      counted == [r EXCEPT !.rate[sender] = [rateData EXCEPT !.count = @ + 1]]
  IN IF rateData.count >= CHAT_MAX THEN r
     ELSE IF msg.scope = "" \/ msg.scope = "LOCAL"
     THEN IF r.peerId[src] = NoId \/ r.peerId[src] # sender THEN r
          ELSE acceptLocal(counted, msg, src)
     ELSE IF msg.scope = "GLOBAL"
     THEN IF msg.sig = NoSig \/ id = "" THEN r
          ELSE IF ~chatIdMatches(msg) THEN increment(r, "invalidSig")
          ELSE IF ~chatFresh(msg, t) THEN r
          ELSE IF ~verifySignature(ChatPayload(id), msg.sig, createPublicKey(sender))
               THEN increment(r, "invalidSig")
          ELSE IF chatSeen(r, msg) THEN r
          ELSE LET r1 == chatCallback(
                            [markRelayed(r, ChatMark(id)) EXCEPT
                               !.rate[sender] = [rateData EXCEPT !.count = @ + 1]],
                            msg, src)
               IN IF underHopLimit(hops)
                  THEN relayMessage(r1, [msg EXCEPT !.hops = hops + 1], src)
                  ELSE r1
     ELSE r

handleMessage(r, msg, src, t) ==
  IF ~validateMessage(msg) THEN r
  ELSE IF msg.type = "HEARTBEAT" THEN handleHeartbeat(r, msg, src, t)
  ELSE IF msg.type = "LEAVE" THEN handleLeave(r, msg, src, t)
  ELSE IF msg.type = "CHAT" THEN handleChat(r, msg, src, t)
  ELSE r

\* The publications <<sender, time>> of s made less than CHAT_WINDOW before t.
RECURSIVE Recent(_, _)
Recent(s, t) ==
  IF s = <<>> THEN <<>>
  ELSE IF t - Head(s)[2] < CHAT_WINDOW
       THEN <<Head(s)>> \o Recent(Tail(s), t)
       ELSE Recent(Tail(s), t)

Chats(r) == {i \in 1..Len(r.ev) : r.ev[i].type = "CHAT"}

\* The call handleMessage(msg, socket) made by the data handler; inp and src
\* record what was dispatched and on which socket, emt the sender and time of
\* each chat it published within the last CHAT_WINDOW.
dispatch(r, msg, src, t) ==
  LET r0 == [r EXCEPT !.inp = Append(@, msg), !.src = src]
      r1 == handleMessage(r0, msg, src, t)
  IN IF Cardinality(Chats(r1)) > Cardinality(Chats(r0))
     THEN [r1 EXCEPT !.emt = Append(Recent(@, t), <<msg.sender, t>>)]
     ELSE r1

\* ------------------------------------------- standalone message handler
\* handleMessage of the standalone server: no validation, no proof of work, no
\* signature and no dedup filter; seenPeers is written directly.
legacyHandleMessage(r, msg, src, t) ==
  IF msg.type = "HEARTBEAT"
  THEN LET id == msg.id
           seq == msg.seq
           hops == msg.hops
           r0 == IF hops = 0 THEN [r EXCEPT !.peerId[src] = id] ELSE r
           stored == r0.peers[id]
           shouldUpdate == IF ~stored.present THEN TRUE ELSE seq > stored.seq
       IN IF shouldUpdate
          THEN LET r1 == [r0 EXCEPT !.peers[id] = [present |-> TRUE, seq |-> seq,
                                                   lastSeen |-> t],
                                    !.hi[id] = Max(@, seq),
                                    !.acc = @ \cup {msg}]
                   r2 == IF membershipChangeDue(~stored.present)
                         THEN broadcastUpdate(r1) ELSE r1
               IN IF LessThan(hops, MAX_RELAY_HOPS)
                  THEN relayMessage(r2, [msg EXCEPT !.hops = hops + 1], src)
                  ELSE r2
          ELSE r0
  ELSE IF msg.type = "LEAVE"
  THEN LET id == msg.id
           hops == msg.hops
       IN IF r.peers[id].present
          THEN LET r1 == broadcastUpdate([r EXCEPT !.peers[id] = NoPeer,
                                                   !.left = @ \cup {id}])
               IN IF LessThan(hops, MAX_RELAY_HOPS)
                  THEN relayMessage(r1, [msg EXCEPT !.hops = hops + 1], src)
                  ELSE r1
          ELSE r
  ELSE r

\* -------------------------------------------------------- chat endpoint
\* POST /api/chat. body.scope is "" when the request names no scope.
RECURSIVE RecentPosts(_, _)
RecentPosts(h, t) ==
  IF h = <<>> THEN <<>>
  ELSE IF t - Head(h) < CHAT_RATE_LIMIT
       THEN <<Head(h)>> \o RecentPosts(Tail(h), t)
       ELSE RecentPosts(Tail(h), t)

postLimitReached_Late(h) == Len(h) > POST_MAX

postLimitReached(h) == Len(h) >= POST_MAX

postContentOk_Unbounded(content) == content # ""

postContentOk(content) == content # "" /\ ~(Len(content) > MAX_CONTENT)

reply(r, status, error) == [r EXCEPT !.http.status = status, !.http.error = error]

\* swarm.broadcastChat: the message on every open peer socket.
broadcastChat(r, msg) == WriteAll(r, r.conns, msg, "chat")

\* sseManager.broadcast: the message to the node's own Event Bus.
sseBroadcast(r, msg) ==
  [r EXCEPT !.ev = Append(@, [type |-> "CHAT", count |-> 0, id |-> msg.id,
                              msg |-> msg, src |-> NoId])]

\* if (scope === "GLOBAL") msg.sig = signMessage(`chat:${msgId}`, privateKey)
postSignature_Bare(scope, msgId, n) ==
  IF scope = "GLOBAL" THEN signMessage(msgId, n) ELSE NoSig

postSignature(scope, msgId, n) ==
  IF scope = "GLOBAL" THEN signMessage(ChatPayload(msgId), n) ELSE NoSig

postChat(r, n, body, t) ==
  LET r0 == [r EXCEPT !.http.content = body.content, !.http.scope = body.scope]
      h == RecentPosts(r.chatHistory, t)
  IN IF ~ENABLE_CHAT THEN reply(r0, 403, "Chat disabled")
     ELSE IF postLimitReached(h)
          THEN reply([r0 EXCEPT !.chatHistory = h], 429, "Rate limit exceeded")
     ELSE LET r1 == [r0 EXCEPT !.chatHistory = Append(h, t),
                                   !.posted = Append(@, t)]
              scope == IF body.scope = "" THEN "GLOBAL" ELSE body.scope
              msgId == ChatId(n, body.content, t)
              msg == Chat(scope, n, body.content, t, msgId,
                          postSignature(scope, msgId, n), 0)
          IN IF ~postContentOk(body.content) THEN reply(r1, 400, "Invalid content")
             ELSE IF scope # "LOCAL" /\ scope # "GLOBAL"
                  THEN reply(r1, 400, "Invalid scope")
             ELSE reply(sseBroadcast(broadcastChat(r1, msg), msg), 200, "")

\* --------------------------------------------------- connection manager
\* socket.on('data'): the chunk is split on '\n' and every piece is parsed; the
\* loop sits inside one try block, so the first piece that does not parse ends
\* the handling of the whole chunk. A chunk is a sequence of written messages,
\* each with the flag nl: whether its writer terminated it with '\n'.
RECURSIVE SplitLines(_, _)
SplitLines(chunk, line) ==
  IF chunk = <<>> THEN (IF line = <<>> THEN <<>> ELSE <<line>>)
  ELSE LET e == Head(chunk)
       IN IF e.nl THEN <<Append(line, e.msg)>> \o SplitLines(Tail(chunk), <<>>)
          ELSE SplitLines(Tail(chunk), Append(line, e.msg))

RECURSIVE onData(_, _, _, _)
onData(r, lines, src, t) ==
  IF lines = <<>> THEN r
  ELSE IF Len(Head(lines)) # 1 THEN r
  ELSE onData(dispatch(r, Head(lines)[1], src, t), Tail(lines), src, t)

SelfHeartbeat(r, n) ==
  Heartbeat(n, r.mySeq, 0, PowNonce(n), signMessage(SeqPayload(r.mySeq), n))

onConnection(r, n, m) ==
  broadcastUpdate(
    WriteAll([r EXCEPT !.conns = @ \cup {m}, !.peerId[m] = NoId],
             {m}, SelfHeartbeat(r, n), "hello"))

\* socket.peerId && seenPeers.has(socket.peerId)
closeRemoves_Never(r, bound) == FALSE

closeRemoves(r, bound) == bound # NoId /\ r.peers[bound].present

onClose(r, m) ==
  LET r0 == [r EXCEPT !.conns = @ \ {m}, !.peerId[m] = NoId]
      bound == r.peerId[m]
  IN broadcastUpdate(IF closeRemoves(r0, bound)
                     THEN removePeer(r0, bound)
                     ELSE r0)

\* ------------------------------------------------------- gossip engine
sweepStale_Late(r, t) ==
  LET stale == {p \in Ids : r.peers[p].present
                             /\ t - r.peers[p].lastSeen
                                  > LIVENESS_TTL + HEARTBEAT_INTERVAL}
      r0 == [r EXCEPT !.peers = [p \in Ids |-> IF p \in stale THEN NoPeer ELSE @[p]]]
  IN IF stale # {} THEN broadcastUpdate(r0) ELSE r0

sweepStale_Eager(r, t) ==
  LET stale == {p \in Ids : r.peers[p].present /\ t - r.peers[p].lastSeen >= LIVENESS_TTL}
      r0 == [r EXCEPT !.peers = [p \in Ids |-> IF p \in stale THEN NoPeer ELSE @[p]]]
  IN IF stale # {} THEN broadcastUpdate(r0) ELSE r0

sweepStale(r, t) ==
  LET stale == {p \in Ids : r.peers[p].present /\ t - r.peers[p].lastSeen > LIVENESS_TTL}
      r0 == [r EXCEPT !.peers = [p \in Ids |-> IF p \in stale THEN NoPeer ELSE @[p]]]
  IN IF stale # {} THEN broadcastUpdate(r0) ELSE r0

onTick(r, n, t) ==
  LET r0 == [r EXCEPT !.mySeq = @ + 1]
      r1 == [r0 EXCEPT !.peers[n] = [present |-> TRUE, seq |-> r0.mySeq,
                                     lastSeen |-> t]]
      r2 == WriteAll(r1, r1.conns, SelfHeartbeat(r1, n), "heartbeat")
  IN sweepStale(r2, t)

\* The same handler without the loop over swarm.connections.
handleShutdown_Silent(r, n, t) ==
  [r EXCEPT !.phase = "leaving", !.exitAt = t + SHUTDOWN_GRACE]

handleShutdown(r, n, t) ==
  WriteAll([r EXCEPT !.phase = "leaving", !.exitAt = t + SHUTDOWN_GRACE],
           r.conns, Leave(n, 0, signMessage(LeavePayload(n), n)), "leave")

rotate(r) == [r EXCEPT !.bloom = [cur |-> {}, prev |-> r.bloom.cur],
                       !.rel1 = {}, !.rel2 = {}, !.em1 = {}, !.em2 = {}]

\* ------------------------------------------------------------ transport
Running(r) == r.phase \in {"run", "leaving"}

Quiet(r) ==
  [r EXCEPT !.op = "", !.src = NoId, !.inp = <<>>, !.wr = <<>>, !.ev = <<>>,
            !.diag = {}, !.acc = {}, !.http = NoHttp]

Begin(r, op) == [Quiet(r) EXCEPT !.op = op]

\* A remote end that is not an engine of the scenario: the adversary, or a peer
\* whose traffic the scenario leaves open.
IsEnv(m) == IF m \in Node THEN node[m].phase = "off" ELSE TRUE

\* The messages written by node n, appended to the streams towards the engines
\* that hold an open socket to n.
RECURSIVE Transmit(_, _, _, _)
Transmit(ch, nd, n, wr) ==
  IF wr = <<>> THEN ch
  ELSE LET w == Head(wr)
           ch1 == IF w.to \in Node /\ n \in nd[w.to].conns
                  THEN [ch EXCEPT ![<<n, w.to>>] =
                          Append(@, [msg |-> w.msg, nl |-> w.nl])]
                  ELSE ch
       IN Transmit(ch1, nd, n, Tail(wr))

Fits(ch) == \A c \in DOMAIN ch : Len(ch[c]) <= MaxChan

\* One node acts: its record becomes r, every other node's outputs are cleared,
\* and the environment learns the signatures of the messages written to it.
Step(n, r, ch) ==
  LET nd == [m \in Node |-> IF m = n THEN r ELSE Quiet(node[m])]
      ch1 == Transmit(ch, nd, n, r.wr)
  IN /\ Fits(ch1)
     /\ node' = nd
     /\ chan' = ch1
     /\ known' = known \cup ({r.wr[i].msg.sig :
                                  i \in {j \in 1..Len(r.wr) : IsEnv(r.wr[j].to)}}
                               \ {NoSig})

\* ---------------------------------------------------------------- actions
\* swarm.on('connection') at both ends of a new connection between a and b.
Connect(a, b) ==
  /\ a # b /\ {a, b} \in links
  /\ Running(node[a]) /\ Running(node[b])
  /\ b \notin node[a].conns /\ a \notin node[b].conns
  /\ LET ra == onConnection(Begin(node[a], "connection"), a, b)
         rb == onConnection(Begin(node[b], "connection"), b, a)
         nd == [m \in Node |-> IF m = a THEN ra ELSE IF m = b THEN rb
                                ELSE Quiet(node[m])]
         ch0 == [chan EXCEPT ![<<a, b>>] = <<>>, ![<<b, a>>] = <<>>]
         ch1 == Transmit(Transmit(ch0, nd, a, ra.wr), nd, b, rb.wr)
     IN /\ Fits(ch1)
        /\ node' = nd
        /\ chan' = ch1
  /\ UNCHANGED <<now, known, links, quota>>

\* swarm.on('connection') for a socket whose remote end is the environment.
ConnectEnv(n, m) ==
  /\ m # n /\ {n, m} \in links /\ IsEnv(m)
  /\ Running(node[n])
  /\ m \notin node[n].conns
  /\ Step(n, onConnection(Begin(node[n], "connection"), n, m), chan)
  /\ UNCHANGED <<now, links, quota>>

\* socket.on('data') for the first k messages waiting on the stream from m.
Data(n, m, k) ==
  /\ Running(node[n])
  /\ m \in node[n].conns
  /\ k \in 1..Len(chan[<<m, n>>])
  /\ LET ch == chan[<<m, n>>]
         r == onData(Begin(node[n], "data"), SplitLines(SubSeq(ch, 1, k), <<>>),
                     m, now)
     IN Step(n, r, [chan EXCEPT ![<<m, n>>] = SubSeq(ch, k + 1, Len(ch))])
  /\ UNCHANGED <<now, links, quota>>

\* socket.on('close') at n for its socket to m.
Close(n, m) ==
  /\ Running(node[n])
  /\ m \in node[n].conns
  /\ quota.ev > 0
  /\ quota' = [quota EXCEPT !.ev = @ - 1]
  /\ Step(n, onClose(Begin(node[n], "close"), m),
          IF m \in Node THEN [chan EXCEPT ![<<m, n>>] = <<>>] ELSE chan)
  /\ UNCHANGED <<now, links>>

\* The setInterval callback of node n, once per HEARTBEAT_INTERVAL.
Tick(n) ==
  /\ Running(node[n])
  /\ ~node[n].ticked
  /\ Step(n, [onTick(Begin(node[n], "tick"), n, now) EXCEPT !.ticked = TRUE], chan)
  /\ UNCHANGED <<now, links, quota>>

\* SIGINT / SIGTERM at node n.
Shutdown(n) ==
  /\ node[n].phase = "run"
  /\ node[n].ticked
  /\ Step(n, handleShutdown(Begin(node[n], "shutdown"), n, now), chan)
  /\ UNCHANGED <<now, links, quota>>

\* The timeout set by handleShutdown: process.exit(0).
Exit(n) ==
  /\ node[n].phase = "leaving"
  /\ node[n].ticked
  /\ now >= node[n].exitAt
  /\ Step(n, [Begin(node[n], "exit") EXCEPT !.phase = "exited", !.exitCode = 0,
                                        !.conns = {}],
          [c \in Node \X Node |-> IF c[2] = n THEN <<>> ELSE chan[c]])
  /\ UNCHANGED <<now, links, quota>>

\* The dedup filter's rotation timer.
Rotate(n) ==
  /\ Running(node[n])
  /\ node[n].bloom # EmptyBloom
  /\ quota.ev > 0
  /\ quota' = [quota EXCEPT !.ev = @ - 1]
  /\ Step(n, rotate(Begin(node[n], "rotate")), chan)
  /\ UNCHANGED <<now, links>>

\* Time passes: HEARTBEAT_INTERVAL later every interval timer is due again. A
\* process whose exit timeout is due exits before any later timer fires.
Advance ==
  /\ now + HEARTBEAT_INTERVAL <= quota.time
  /\ \A n \in Node : Running(node[n]) => node[n].ticked
  /\ \A n \in Node : node[n].phase = "leaving" => now < node[n].exitAt
  /\ now' = now + HEARTBEAT_INTERVAL
  /\ node' = [n \in Node |-> IF Running(node[n])
                              THEN [Quiet(node[n]) EXCEPT !.ticked = FALSE]
                              ELSE Quiet(node[n])]
  /\ UNCHANGED <<chan, known, links, quota>>

\* A POST /api/chat request at node n.
Post(n, content, scope) ==
  /\ Running(node[n])
  /\ quota.ev > 0
  /\ quota' = [quota EXCEPT !.ev = @ - 1]
  /\ Step(n, postChat(Begin(node[n], "post"), n,
                      [content |-> content, scope |-> scope], now), chan)
  /\ UNCHANGED <<now, links>>

\* ---------------------------------------------------------- environment
\* A remote peer holds its own key, solves the proof of work of any id, and
\* replays any signature of node n that n has written to the environment. What
\* it sends reaches n as one complete line on the socket src.
EnvIds == {"A"}

EnvHops == {0, 2, 3}

\* The remote peers that send; a socket to C only receives.
EnvSenders == {"A", Adv}

OtherKey(id) == IF id = Adv THEN "A" ELSE Adv

EnvData(n, src, msg) ==
  /\ Running(node[n])
  /\ src \in node[n].conns /\ IsEnv(src) /\ src \in EnvSenders
  /\ quota.ev > 0
  /\ quota' = [quota EXCEPT !.ev = @ - 1]
  /\ Step(n, dispatch(Begin(node[n], "data"), msg, src, now), chan)
  /\ UNCHANGED <<now, links>>

\* A heartbeat of a remote id that verifies: sent by its owner or replayed.
EnvHeartbeat(n, src) ==
  \E id \in EnvIds, seq \in 1..MaxAdvSeq, hops \in EnvHops :
    EnvData(n, src, Heartbeat(id, seq, hops, PowNonce(id),
                              signMessage(SeqPayload(seq), id)))

\* A heartbeat that fails one check: a wrong nonce, a signature under another
\* key, a signature over another seq, or a replay of one of n's own heartbeats.
EnvBadHeartbeat(n, src) ==
  \E id \in EnvIds :
    \/ EnvData(n, src, Heartbeat(id, 1, 0, "bad", signMessage(SeqPayload(1), id)))
    \/ EnvData(n, src, Heartbeat(id, 1, 0, PowNonce(id),
                                 signMessage(SeqPayload(1), OtherKey(id))))
    \/ EnvData(n, src, Heartbeat(id, 1, 0, PowNonce(id),
                                 signMessage(SeqPayload(2), id)))
    \/ \E sig \in known :
         EnvData(n, src, Heartbeat(n, 1, 0, PowNonce(n), sig))

EnvLeave(n, src) ==
  \E id \in EnvIds :
    \/ \E hops \in EnvHops \ {2} :
         EnvData(n, src, Leave(id, hops, signMessage(LeavePayload(id), id)))
    \/ EnvData(n, src, Leave(id, 0, signMessage(LeavePayload(id), OtherKey(id))))

\* The chat scenario: the remote peer is active in bursts, one rate window
\* and one timer period apart.
InBurst == now % (CHAT_WINDOW + HEARTBEAT_INTERVAL) = 0

\* The first heartbeat of a directly connected remote peer.
EnvHello(n, src) ==
  \E id \in EnvIds :
    /\ InBurst
    /\ EnvData(n, src, Heartbeat(id, 1, 0, PowNonce(id),
                              signMessage(SeqPayload(1), id)))

GlobalChat(sender, content, ts, hops) ==
  Chat("GLOBAL", sender, content, ts, ChatId(sender, content, ts),
       signMessage(ChatPayload(ChatId(sender, content, ts)), sender), hops)

\* A LOCAL chat, a GLOBAL chat as its sender built it, or a GLOBAL chat with
\* an id that is not the hash of its fields (signed by its sender all the same)
\* or with a signature under another key.
EnvChat(n, src) ==
  \E sender \in EnvIds :
    \/ EnvData(n, src, Chat("LOCAL", sender, "hi", 0, "", NoSig, 0))
    \/ \E hops \in EnvHops \ {2} :
         EnvData(n, src, GlobalChat(sender, "hi", 0, hops))
    \/ EnvData(n, src, [GlobalChat(sender, "ho", 0, 0) EXCEPT !.content = "hi"])
    \/ EnvData(n, src, GlobalChat(sender, "hi", 0 - CHAT_FRESHNESS - 1, 0))
    \/ EnvData(n, src, [GlobalChat(sender, "hi", 0, 0) EXCEPT
                          !.sig = signMessage(ChatPayload(ChatId(sender, "hi", 0)),
                                              OtherKey(sender))])

\* The chat traffic of one sender: a LOCAL chat, and one GLOBAL chat as it
\* arrives directly or at the end of its hop budget.
EnvChatter(n, src) ==
  \E sender \in EnvIds :
    /\ InBurst
    /\ \/ EnvData(n, src, Chat("LOCAL", sender, "hi", 0, "", NoSig, 0))
       \/ \E hops \in {0, 3} : EnvData(n, src, GlobalChat(sender, "hi", 0, hops))

\* LOCAL chats (scope LOCAL or no scope) naming a directly connected remote
\* peer as sender, with any hops, sent at the start of the sender's rate window,
\* at the window's last instant and just after it.
EnvLocalChat(n, src) ==
  \E sender \in EnvIds :
    /\ now \in {0, CHAT_WINDOW, CHAT_WINDOW + HEARTBEAT_INTERVAL}
    /\ \E scope \in {"", "LOCAL"}, hops \in EnvHops :
         EnvData(n, src, Chat(scope, sender, "hi", now, "", NoSig, hops))

\* The first periodic heartbeats of a remote peer that is their origin, sent
\* on its direct connection.
EnvOrigin(n, src) ==
  \E seq \in 1..MaxAdvSeq :
    EnvData(n, src, Heartbeat(src, seq, 0, PowNonce(src),
                              signMessage(SeqPayload(seq), src)))

\* A heartbeat of a remote peer, signed and with its proof of work, whose hops
\* is a number outside 0..MAX_RELAY_HOPS.
EnvOddHops(n, src) ==
  \E hops \in {0 - 2, MAX_RELAY_HOPS + 1} :
    EnvData(n, src, Heartbeat(src, 1, hops, PowNonce(src),
                              signMessage(SeqPayload(1), src)))

\* Heartbeats of every remote id, as their owners signed them, arriving on one
\* socket: its remote end's own with hops 0, the others' relayed. One of the
\* ids is heard of again with later sequence numbers.
EnvCrowd(n, src) ==
  \E id \in Ids \ {n}, seq \in 1..MaxAdvSeq :
    /\ src \in EnvIds
    /\ seq > 1 => id = Guest
    /\ EnvData(n, src, Heartbeat(id, seq, IF id = src THEN 0 ELSE 2, PowNonce(id),
                                 signMessage(SeqPayload(seq), id)))

\* GLOBAL chats as their sender built them, with a timestamp at the edge of
\* the freshness bound or one millisecond beyond it, in the past and in the
\* future of the receiver's clock.
EnvAgedChat(n, src) ==
  \E sender \in EnvIds, hops \in {0, MAX_RELAY_HOPS},
     ts \in {now - CHAT_FRESHNESS - 1, now - CHAT_FRESHNESS,
             now + CHAT_FRESHNESS, now + CHAT_FRESHNESS + 1} :
    EnvData(n, src, GlobalChat(sender, "hi", ts, hops))

\* A content of length k.
RECURSIVE Filler(_)
Filler(k) ==
  IF k = 0 THEN ""
  ELSE IF k % 2 = 1 THEN "x" \o Filler(k - 1)
  ELSE LET half == Filler(k \div 2) IN half \o half

\* The local submissions: no content, a short one, one of the greatest length
\* allowed and one a character longer; no scope, LOCAL, GLOBAL, or another
\* word.
PostChat(n) ==
  \E content \in {"", "hi", Filler(MAX_CONTENT), Filler(MAX_CONTENT + 1)},
     scope \in {"", "LOCAL", "GLOBAL", "ALL"} :
    Post(n, content, scope)

\* Local submissions, accepted or with a content that is refused, sent at the
\* start of the limiter's window, just before its end and at its end.
PostBurst(n) ==
  \E content \in {"hi", Filler(MAX_CONTENT + 1)} :
    /\ now \in {0, CHAT_RATE_LIMIT - HEARTBEAT_INTERVAL, CHAT_RATE_LIMIT}
    /\ Post(n, content, "GLOBAL")

\* GLOBAL chats as their sender built them, with content of the greatest
\* length allowed and one character longer.
EnvSizedChat(n, src) ==
  \E sender \in EnvIds, k \in {MAX_CONTENT, MAX_CONTENT + 1} :
    EnvData(n, src, GlobalChat(sender, Filler(k), now, 0))

\* The ways a parsed line fails validation: not an object, no type, too long,
\* a key outside the allowlist, an unknown type, or a required field of its
\* type missing or of the wrong kind.
Malformed(m) ==
  \/ m.scalar
  \/ m.type = ""
  \/ m.oversize
  \/ m.extra
  \/ m.type \notin {"HEARTBEAT", "LEAVE", "CHAT"}
  \/ /\ m.type = "HEARTBEAT"
     /\ \/ m.id = "" \/ m.seq = Undef \/ m.hops = Undef
        \/ m.nonce = "" \/ m.sig = NoSig
  \/ /\ m.type = "LEAVE"
     /\ (m.id = "" \/ m.hops = Undef \/ m.sig = NoSig)
  \/ /\ m.type = "CHAT"
     /\ \/ m.sender = "" \/ m.content = "" \/ m.timestamp = Undef
        \/ Len(m.content) > MAX_CONTENT

\* Lines that parse but are not valid messages: a heartbeat, a leave and a chat
\* as their senders built them, each with one thing wrong.
Damaged(m) ==
  {[m EXCEPT !.extra = TRUE], [m EXCEPT !.oversize = TRUE],
   [m EXCEPT !.hops = Undef], [m EXCEPT !.sig = NoSig], [m EXCEPT !.id = ""],
   [m EXCEPT !.seq = Undef], [m EXCEPT !.nonce = ""], [m EXCEPT !.sender = ""],
   [m EXCEPT !.content = ""], [m EXCEPT !.timestamp = Undef],
   [m EXCEPT !.type = "PING"], [m EXCEPT !.type = ""]}

InvalidLines(id) ==
  {m \in Damaged(Heartbeat(id, 1, 0, PowNonce(id), signMessage(SeqPayload(1), id)))
          \cup Damaged(Leave(id, 0, signMessage(LeavePayload(id), id)))
          \cup Damaged(GlobalChat(id, "hi", 0, 0))
          \cup {[NoMsg EXCEPT !.scalar = TRUE]} :
     Malformed(m)}

EnvInvalid(n, src) ==
  \E id \in EnvIds : \E m \in InvalidLines(id) : EnvData(n, src, m)

\* What reaches the standalone handler: unsigned heartbeats and leaves naming
\* a remote id or the receiving node's own id.
EnvLegacy(n, src) ==
  /\ Running(node[n])
  /\ src \in node[n].conns /\ IsEnv(src) /\ src \in EnvSenders
  /\ quota.ev > 0
  /\ quota' = [quota EXCEPT !.ev = @ - 1]
  /\ \E id \in EnvIds \cup {n}, hops \in {0, MAX_RELAY_HOPS} :
       \E msg \in {Heartbeat(id, seq, hops, "", NoSig) : seq \in 1..MaxAdvSeq}
                    \cup {Leave(id, hops, NoSig)} :
         Step(n, legacyHandleMessage([Begin(node[n], "data")
                                        EXCEPT !.inp = <<msg>>, !.src = src],
                                     msg, src, now), chan)
  /\ UNCHANGED <<now, links>>

\* ------------------------------------------------------- specifications
InitOf(running, lk, events, time) ==
  /\ node = [n \in Node |-> NewNode(n, IF n \in running THEN "run" ELSE "off")]
  /\ chan = [c \in Node \X Node |-> <<>>]
  /\ now = 0
  /\ known = {}
  /\ links = lk
  /\ quota = [ev |-> events, time |-> time]

\* One engine, B, with sockets to two remote peers whose traffic is open; no
\* time passes.
Init == InitOf({"B"}, {{"B", "A"}, {"B", Adv}}, MaxEvents, 0)

Next ==
  \/ \E n \in Node, m \in Ids : ConnectEnv(n, m)
  \/ \E n \in Node, m \in Ids : Close(n, m)
  \/ \E n \in Node, m \in Ids : EnvHeartbeat(n, m)
  \/ \E n \in Node, m \in Ids : EnvBadHeartbeat(n, m)
  \/ \E n \in Node, m \in Ids : EnvLeave(n, m)
  \/ \E n \in Node, m \in Ids : EnvChat(n, m)
  \/ \E n \in Node : Rotate(n)

Spec == Init /\ [][Next]_vars

\* One engine, B, with sockets to two remote peers, its interval timer running
\* for MaxSweepTime.
NextSweep ==
  \/ \E n \in Node, m \in Ids : ConnectEnv(n, m)
  \/ \E n \in Node, m \in Ids : EnvHeartbeat(n, m)
  \/ \E n \in Node : Tick(n)
  \/ Advance

SpecSweep ==
  InitOf({"B"}, {{"B", "A"}, {"B", "C"}}, MaxEvents, MaxSweepTime) /\ [][NextSweep]_vars

\* One engine, B, receiving the chat traffic of one remote peer for MaxRateTime.
NextRate ==
  \/ \E n \in Node, m \in Ids : ConnectEnv(n, m)
  \/ \E n \in Node, m \in Ids : EnvHello(n, m)
  \/ \E n \in Node, m \in Ids : EnvChatter(n, m)
  \/ \E n \in Node : Rotate(n)
  \/ \E n \in Node : Tick(n)
  \/ Advance

SpecRate ==
  InitOf({"B"}, {{"B", "A"}, {"B", "C"}}, MaxRateEvents, MaxRateTime) /\ [][NextRate]_vars

\* One engine, B, with sockets to two remote peers, receiving LOCAL chats in
\* the name of one of them across the end of that sender's rate window.
NextWindow ==
  \/ \E n \in Node, m \in Ids : ConnectEnv(n, m)
  \/ \E n \in Node, m \in Ids : EnvHello(n, m)
  \/ \E n \in Node, m \in Ids : EnvLocalChat(n, m)
  \/ \E n \in Node : Tick(n)
  \/ Advance

SpecWindow ==
  InitOf({"B"}, {{"B", "A"}, {"B", Adv}}, MaxRateEvents, MaxRateTime)
    /\ [][NextWindow]_vars

\* One engine, B, with sockets to two remote peers: heartbeats and leaves of a
\* remote id, long enough for the id to join, leave, join again and leave
\* again; no time passes.
NextLeave ==
  \/ \E n \in Node, m \in Ids : ConnectEnv(n, m)
  \/ \E n \in Node, m \in Ids : EnvHeartbeat(n, m)
  \/ \E n \in Node, m \in Ids : EnvLeave(n, m)
  \/ \E n \in Node : Rotate(n)

SpecLeave ==
  InitOf({"B"}, {{"B", "A"}, {"B", Adv}}, MaxLeaveEvents, 0) /\ [][NextLeave]_vars

\* One engine, B, with sockets to two remote peers, hearing of more remote ids
\* than its table admits.
NextCap ==
  \/ \E n \in Node, m \in Ids : ConnectEnv(n, m)
  \/ \E n \in Node, m \in Ids : EnvCrowd(n, m)

SpecCap ==
  InitOf({"B"}, {{"B", "A"}, {"B", Adv}}, MaxCapEvents, 0) /\ [][NextCap]_vars

\* One engine, B, with sockets to two remote peers, receiving chats whose
\* timestamps lie around the freshness bound, at two instants of its clock.
NextFresh ==
  \/ \E n \in Node, m \in Ids : ConnectEnv(n, m)
  \/ \E n \in Node, m \in Ids : EnvAgedChat(n, m)
  \/ \E n \in Node : Tick(n)
  \/ Advance

SpecFresh ==
  InitOf({"B"}, {{"B", "A"}, {"B", Adv}}, MaxEvents, MaxTime) /\ [][NextFresh]_vars

\* One engine, B, with sockets to two remote peers, taking local chat
\* submissions and inbound chats; no time passes.
NextPost ==
  \/ \E n \in Node, m \in Ids : ConnectEnv(n, m)
  \/ \E n \in Node : PostChat(n)
  \/ \E n \in Node, m \in Ids : EnvSizedChat(n, m)

SpecPost ==
  InitOf({"B"}, {{"B", "A"}, {"B", Adv}}, MaxEvents, 0) /\ [][NextPost]_vars

\* One engine, B, with one socket, taking local chat submissions across the
\* end of the limiter's window.
NextLimit ==
  \/ \E n \in Node, m \in Ids : ConnectEnv(n, m)
  \/ \E n \in Node : PostBurst(n)
  \/ \E n \in Node : Tick(n)
  \/ Advance

SpecLimit ==
  InitOf({"B"}, {{"B", "A"}}, MaxRateEvents, MaxRateTime) /\ [][NextLimit]_vars

\* One engine, B, with sockets to two remote peers, receiving valid heartbeats
\* and invalid lines; no time passes.
NextInvalid ==
  \/ \E n \in Node, m \in Ids : ConnectEnv(n, m)
  \/ \E n \in Node, m \in Ids : EnvHeartbeat(n, m)
  \/ \E n \in Node, m \in Ids : EnvInvalid(n, m)

SpecInvalid ==
  InitOf({"B"}, {{"B", "A"}, {"B", Adv}}, MaxEvents, 0) /\ [][NextInvalid]_vars

\* The chain A - B - C of three engines, from construction to the exit of A.
NextNet ==
  \/ \E a, b \in Node : Connect(a, b)
  \/ \E n \in Node, m \in Node : \E k \in 1..MaxChan : Data(n, m, k)
  \/ \E n \in Node, m \in Node : node[m].phase = "exited" /\ Close(n, m)
  \/ \E n \in Node : Tick(n)
  \/ \E n \in {"A"} : Shutdown(n)
  \/ \E n \in Node : Exit(n)
  \/ Advance

SpecNet ==
  InitOf({"A", "B", "C"}, {{"A", "B"}, {"B", "C"}}, MaxNetEvents, MaxTime)
    /\ [][NextNet]_vars

\* One engine, B, running the standalone handler, with sockets to two remote
\* peers and its interval timer running for MaxTime.
NextLegacy ==
  \/ \E n \in Node, m \in Ids : ConnectEnv(n, m)
  \/ \E n \in Node, m \in Ids : Close(n, m)
  \/ \E n \in Node, m \in Ids : EnvLegacy(n, m)
  \/ \E n \in Node : Tick(n)
  \/ Advance

SpecLegacy ==
  InitOf({"B"}, {{"B", "A"}, {"B", Adv}}, MaxEvents, MaxTime) /\ [][NextLegacy]_vars

\* The fully connected network A, B, C after start-up: A - B connected first,
\* then B - C, then A - C, every hello and every relay of a hello handled before
\* the next connection. Hear is one data event carrying one complete line.
Hear(r, from, msg) == dispatch(Begin(r, "data"), msg, from, 0)

Joined(r, n, m) == onConnection(Begin(r, "connection"), n, m)

InitTri(events, time) ==
  LET TriA1 == Joined(NewNode("A", "run"), "A", "B")
      TriB1 == Joined(NewNode("B", "run"), "B", "A")
      TriA2 == Hear(TriA1, "B", SelfHeartbeat(TriB1, "B"))
      TriB2 == Hear(TriB1, "A", SelfHeartbeat(TriA1, "A"))
      TriB3 == Joined(TriB2, "B", "C")
      TriC1 == Joined(NewNode("C", "run"), "C", "B")
      TriB4 == Hear(TriB3, "C", SelfHeartbeat(TriC1, "C"))
      TriC2 == Hear(TriC1, "B", SelfHeartbeat(TriB3, "B"))
      TriA3 == Hear(TriA2, "B", [SelfHeartbeat(TriC1, "C") EXCEPT !.hops = 1])
      TriA4 == Joined(TriA3, "A", "C")
      TriC3 == Joined(TriC2, "C", "A")
      TriA5 == Hear(TriA4, "C", SelfHeartbeat(TriC3, "C"))
      TriC4 == Hear(TriC3, "A", SelfHeartbeat(TriA4, "A"))
      TriB5 == Hear(TriB4, "C", [SelfHeartbeat(TriA4, "A") EXCEPT !.hops = 1])
  IN /\ node = [n \in Node |-> Quiet(CASE n = "A" -> TriA5
                                        [] n = "B" -> TriB5
                                        [] n = "C" -> TriC4
                                        [] OTHER -> NewNode(n, "off"))]
     /\ chan = [c \in Node \X Node |-> <<>>]
     /\ now = 0
     /\ known = {}
     /\ links = {{"A", "B"}, {"B", "C"}, {"A", "C"}}
     /\ quota = [ev |-> events, time |-> time]

NextTri ==
  \/ \E n \in Node, m \in Node : \E k \in 1..MaxChan : Data(n, m, k)
  \/ \E n \in Node : Tick(n)
  \/ Advance

SpecTri == InitTri(0, MaxTime) /\ [][NextTri]_vars

\* The same network with B taking local submissions of GLOBAL chats; no time
\* passes.
NextEcho ==
  \/ \E content \in {"hi", Filler(MAX_CONTENT)} : Post("B", content, "GLOBAL")
  \/ \E n \in Node, m \in Node : \E k \in 1..MaxChan : Data(n, m, k)

SpecEcho == InitTri(MaxEvents, 0) /\ [][NextEcho]_vars

\* The chain M - A - B - C - D: four engines from construction, and the remote
\* peer M connected to A only.
NextChain ==
  \/ \E a, b \in Node : Connect(a, b)
  \/ \E n \in Node, m \in Ids : ConnectEnv(n, m)
  \/ \E n \in Node, m \in Ids : EnvOrigin(n, m)
  \/ \E n \in Node, m \in Ids : EnvOddHops(n, m)
  \/ \E n \in Node, m \in Node : \E k \in 1..MaxChan : Data(n, m, k)

SpecChain ==
  InitOf(Node, {{Adv, "A"}, {"A", "B"}, {"B", "C"}, {"C", "D"}}, MaxChainEvents, 0)
    /\ [][NextChain]_vars

\* The chain A - B - C from construction: C connects to B at JoinTime, before,
\* between or after the interval timers due at that instant and once the
\* connection A - B exists, and the scenario runs for three heartbeat intervals
\* from then. Delivery is reliable and timely: whatever was written is handled
\* before the next interval timer is due.
JoinTime == HEARTBEAT_INTERVAL

ConvergenceTime == JoinTime + 3 * HEARTBEAT_INTERVAL

Delivered == \A c \in Node \X Node : chan[c] = <<>>

NextConv ==
  \/ Connect("A", "B")
  \/ "A" \in node["B"].conns /\ now = JoinTime /\ Connect("B", "C")
  \/ \E n \in Node, m \in Node : \E k \in 1..MaxChan : Data(n, m, k)
  \/ \E n \in Node : Tick(n)
  \/ Delivered /\ Advance

SpecConv ==
  InitOf({"A", "B", "C"}, {{"A", "B"}, {"B", "C"}}, 0, ConvergenceTime)
    /\ [][NextConv]_vars

\* Two connected engines, A and B, with B taking local chat submissions at the
\* start of a limiter window and at its end; the engines connect at start-up
\* and the network delay is negligible: whatever is written is read before
\* time passes.
NextPair ==
  \/ now = 0 /\ Connect("A", "B")
  \/ \E scope \in {"LOCAL", "GLOBAL"} :
       /\ now \in {0, CHAT_RATE_LIMIT}
       /\ Post("B", "hi", scope)
  \/ \E n \in Node, m \in Node : \E k \in 1..MaxChan : Data(n, m, k)
  \/ \E n \in Node : Tick(n)
  \/ Delivered /\ Advance

SpecPair ==
  InitOf({"A", "B"}, {{"A", "B"}}, MaxPairEvents, CHAT_RATE_LIMIT)
    /\ [][NextPair]_vars

\* ----------------------------------------------------------------- claims
Range(q) == {q[i] : i \in 1..Len(q)}

RelayWrites(r) == {w \in Range(r.wr) : w.kind = "relay"}

Relayed(msg) == [msg EXCEPT !.hops = @ + 1]

Verified(msg) ==
  /\ msg.type = "HEARTBEAT"
  /\ verifyPoW(msg.id, msg.nonce)
  /\ verifySignature(SeqPayload(msg.seq), msg.sig, createPublicKey(msg.id))

C2_SeqNeverDecreases ==
  \A n \in Node : \A p \in Ids :
    node[n].peers[p].present => node[n].peers[p].seq >= node[n].hi[p]

C4_NoRelayAtHopLimit ==
  \A n \in Node : \A m \in Range(node[n].inp) :
    (IsNumber(m.hops) /\ m.hops >= MAX_RELAY_HOPS)
      => \A w \in RelayWrites(node[n]) : w.msg # Relayed(m)

\* C4 witness: a heartbeat with hops = MAX_RELAY_HOPS was accepted into the
\* table while another socket was open, and nothing was written.
C4_Witness ==
  \E n \in Node :
    /\ node[n].op = "data"
    /\ node[n].conns \ {node[n].src} # {}
    /\ node[n].wr = <<>>
    /\ \E m \in node[n].acc : m.hops = MAX_RELAY_HOPS

\* C5: a relay writes the copy to every open socket except the one the
\* message arrived on, and never to that one.
C5_RelayExcludesSource ==
  \A n \in Node : \A w \in RelayWrites(node[n]) :
    /\ w.to # node[n].src
    /\ {v.to : v \in {x \in RelayWrites(node[n]) : x.msg = w.msg}}
         = node[n].conns \ {node[n].src}

\* C5 witness: a message that arrived on one of two open sockets was relayed,
\* and the relay was written to the other socket alone.
C5_Witness ==
  \E n \in Node :
    /\ node[n].op = "data"
    /\ Cardinality(node[n].conns) = 2
    /\ node[n].src \in node[n].conns
    /\ {w.to : w \in RelayWrites(node[n])} = node[n].conns \ {node[n].src}
    /\ Len(node[n].wr) = 1

HasBadChatId(m) ==
  /\ m.type = "CHAT" /\ m.scope = "GLOBAL"
  /\ m.id # ChatId(m.sender, m.content, m.timestamp)

ChatEvents(r, m) ==
  {i \in 1..Len(r.ev) : r.ev[i].type = "CHAT" /\ r.ev[i].msg = m}

\* C6: handling a GLOBAL CHAT whose id is not sha256(sender+content+timestamp)
\* publishes no chat event, writes no relay, leaves the dedup filter as it was
\* and leaves every sender's rate-limit record as it was.
C6_BadChatIdHasNoEffect ==
  [][\A n \in Node :
       (node'[n].op = "data" /\ Len(node'[n].inp) = 1
          /\ HasBadChatId(node'[n].inp[1]))
         => /\ ChatEvents(node'[n], node'[n].inp[1]) = {}
            /\ node'[n].wr = <<>>
            /\ node'[n].bloom = node[n].bloom
            /\ node'[n].rate = node[n].rate
            /\ node'[n].em1 = node[n].em1]_vars

\* C6 witness: a GLOBAL CHAT with a wrong id, signed by its sender over the id
\* it states, was handled and counted as invalidSig.
C6_Witness ==
  \E n \in Node :
    /\ node[n].op = "data"
    /\ Len(node[n].inp) = 1
    /\ HasBadChatId(node[n].inp[1])
    /\ verifySignature(ChatPayload(node[n].inp[1].id), node[n].inp[1].sig,
                       createPublicKey(node[n].inp[1].sender))
    /\ "invalidSig" \in node[n].diag
    /\ node[n].conns \ {node[n].src} # {}

ValidGlobalChat(m, t) ==
  /\ validateMessage(m)
  /\ m.type = "CHAT" /\ m.scope = "GLOBAL"
  /\ m.id = ChatId(m.sender, m.content, m.timestamp)
  /\ Abs(t - m.timestamp) <= CHAT_FRESHNESS
  /\ verifySignature(ChatPayload(m.id), m.sig, createPublicKey(m.sender))

\* The number of chats counted for sender in the window open at time t.
Counted(r, sender, t) ==
  IF r.rate[sender].set /\ t - r.rate[sender].windowStart <= CHAT_WINDOW
  THEN r.rate[sender].count
  ELSE 0

RelayDests(r, m) == {w.to : w \in {x \in RelayWrites(r) : x.msg = Relayed(m)}}

\* C7 (as claimed): the first delivery of a valid GLOBAL CHAT in a rotation
\* window produces one emission and one relay.
C7_FirstDeliveryEmitsAndRelays ==
  [][\A n \in Node :
       (/\ node'[n].op = "data" /\ Len(node'[n].inp) = 1
        /\ ValidGlobalChat(node'[n].inp[1], now)
        /\ node'[n].inp[1].id \notin node[n].em1
        /\ ~hasRelayed(node[n], ChatMark(node'[n].inp[1].id)))
         => /\ Cardinality(ChatEvents(node'[n], node'[n].inp[1])) = 1
            /\ <<"CHAT", node'[n].inp[1].id, Undef, NoId>> \in node'[n].rel1]_vars

\* C7 (amended): within one rotation window a valid GLOBAL CHAT is emitted at
\* most once and relayed at most once. The first delivery that finds its sender
\* under the rate limit emits exactly once and relays, to every other socket,
\* exactly when hops < MAX_RELAY_HOPS; every other delivery in the window emits
\* nothing and writes nothing.
C7_ChatEmittedAndRelayedOnce ==
  /\ [](\A n \in Node :
          /\ node[n].em2 = {}
          /\ \A k \in node[n].rel2 : k[1] # "CHAT")
  /\ [][\A n \in Node :
          (/\ node'[n].op = "data" /\ Len(node'[n].inp) = 1
           /\ ValidGlobalChat(node'[n].inp[1], now))
            => LET m == node'[n].inp[1]
                   first == /\ ~hasRelayed(node[n], ChatMark(m.id))
                            /\ Counted(node[n], m.sender, now) < CHAT_MAX
               IN IF first
                  THEN /\ Cardinality(ChatEvents(node'[n], m)) = 1
                       /\ Len(node'[n].ev) = 1
                       /\ RelayDests(node'[n], m) =
                            IF LessThan(m.hops, MAX_RELAY_HOPS)
                            THEN node'[n].conns \ {node'[n].src}
                            ELSE {}
                       /\ \A w \in Range(node'[n].wr) :
                            w.kind = "relay" /\ w.msg = Relayed(m)
                  ELSE node'[n].ev = <<>> /\ node'[n].wr = <<>>]_vars

\* C7 witness: a valid GLOBAL CHAT already emitted in this window was delivered
\* again, with another socket open, and produced no event and no write.
C7_Witness ==
  \E n \in Node :
    /\ node[n].op = "data"
    /\ Len(node[n].inp) = 1
    /\ ValidGlobalChat(node[n].inp[1], now)
    /\ node[n].inp[1].id \in node[n].em1
    /\ LessThan(node[n].inp[1].hops, MAX_RELAY_HOPS)
    /\ node[n].conns \ {node[n].src} # {}
    /\ node[n].ev = <<>>
    /\ node[n].wr = <<>>

\* C8: a non-local record whose last accepted heartbeat is more than
\* LIVENESS_TTL old is removed by the next tick, which emits a membership
\* change with the count of the records that remain; so no non-local record is
\* ever older than LIVENESS_TTL + HEARTBEAT_INTERVAL.
C8_StaleRemovedByNextTick ==
  /\ [](\A n \in Node : \A p \in Ids \ {n} :
          (Running(node[n]) /\ node[n].peers[p].present)
            => now - node[n].peers[p].lastSeen
                 <= LIVENESS_TTL + HEARTBEAT_INTERVAL)
  /\ [][\A n \in Node : \A p \in Ids \ {n} :
          (/\ ~node[n].ticked /\ node'[n].ticked /\ node'[n].op = "tick"
           /\ node[n].peers[p].present
           /\ now - node[n].peers[p].lastSeen > LIVENESS_TTL)
            => /\ ~node'[n].peers[p].present
               /\ \E e \in Range(node'[n].ev) :
                    /\ e.type = "MEMBERSHIP"
                    /\ e.count = Cardinality({q \in Ids :
                                               node'[n].peers[q].present})]_vars

\* C8 witness: a tick at LIVENESS_TTL + HEARTBEAT_INTERVAL after the last
\* accepted heartbeat of A has removed A and emitted the membership change.
C8_Witness ==
  \E n \in Node :
    /\ node[n].op = "tick"
    /\ node[n].hi["A"] >= 1
    /\ ~node[n].peers["A"].present
    /\ now >= LIVENESS_TTL + HEARTBEAT_INTERVAL
    /\ \E e \in Range(node[n].ev) : e.type = "MEMBERSHIP" /\ e.count = 1

\* C9 (as claimed): once a node has removed a peer on that peer's LEAVE, the
\* peer, shutting down or gone, is not in the node's table again.
C9_LeaverStaysOut ==
  \A n \in Node : \A p \in node[n].left :
    (p \in Node /\ node[p].phase \in {"leaving", "exited"})
      => ~node[n].peers[p].present

\* C10 (as claimed): a LOCAL chat is published only when it arrived on the
\* socket whose remote end is the sender it names.
C10_LocalChatFromAuthor ==
  \A n \in Node : \A i \in 1..Len(node[n].ev) :
    (node[n].ev[i].type = "CHAT" /\ node[n].ev[i].msg.scope \in {"", "LOCAL"})
      => node[n].ev[i].src = node[n].ev[i].msg.sender

\* C11 (as claimed): a running node's table holds the node's own id with seq
\* equal to its current mySeq.
C11_OwnRecordCurrent ==
  \A n \in Node :
    Running(node[n])
      => /\ node[n].peers[n].present
         /\ node[n].peers[n].seq = node[n].mySeq

\* The relay transmissions node n has made of A's first periodic heartbeat.
TriRelays(n) ==
  {k \in node[n].rel1 : k[1] = "HEARTBEAT" /\ k[2] = "A" /\ k[3] = 1 /\ k[4] # NoId}

\* C12 (as claimed): every relayed copy of A's heartbeat is dropped at its
\* destination.
C12_RelaysDroppedAtDestination ==
  \A n \in Node : \A m \in node[n].acc :
    (m.type = "HEARTBEAT" /\ m.id = "A" /\ m.seq = 1) => m.hops = 0

\* C12 (amended): in the fully connected network A, B, C one heartbeat of A is
\* relayed by B at most once and by C at most once, to one socket each, and by
\* A never, under every delivery order; every message in flight has an open
\* socket to be read from; and once every timer has fired and nothing is in
\* flight, both relays have been made.
C12_TwoRelaysNoLoop ==
  /\ \A n \in Node :
       /\ Cardinality(TriRelays(n)) <= (IF n = "A" THEN 0 ELSE 1)
       /\ \A k \in node[n].rel2 : ~(k[2] = "A" /\ k[3] = 1)
  /\ \A c \in Node \X Node :
       chan[c] # <<>> => Running(node[c[2]]) /\ c[1] \in node[c[2]].conns
  /\ (now > 0 /\ Delivered /\ \A n \in {"A", "B", "C"} : node[n].ticked)
       => /\ Cardinality(TriRelays("B")) = 1
          /\ Cardinality(TriRelays("C")) = 1

\* C12 witness: nothing is in flight, B and C have each relayed A's heartbeat
\* once, and C took B's relayed copy as its first.
C12_Witness ==
  /\ Delivered
  /\ Cardinality(TriRelays("B")) = 1
  /\ Cardinality(TriRelays("C")) = 1
  /\ <<"HEARTBEAT", "A", 1, "A">> \in node["C"].rel1

\* C13 (as claimed): with the origin four links away (M - A - B - C - D), the
\* origin's heartbeat is not relayed over the fourth link and the origin is
\* never in the table of the node at the end of the chain.
C13_OriginAbsentAtFourthHop ==
  /\ ~node["D"].peers[Adv].present
  /\ \A w \in RelayWrites(node["C"]) : ~(w.to = "D" /\ w.msg.id = Adv)

\* C14: in the chain A - B - C with reliable delivery, three heartbeat
\* intervals after C connected every node's table holds A, B and C, and the
\* count every node reports is 3.
Members(n) == {id \in Ids : node[n].peers[id].present}

C14_ChainConverges ==
  ("C" \in node["B"].conns /\ now >= ConvergenceTime)
    => \A n \in {"A", "B", "C"} :
         /\ Members(n) = {"A", "B", "C"}
         /\ size(node[n]) = 3
         /\ \A i \in 1..Len(node[n].ev) :
              node[n].ev[i].type = "MEMBERSHIP" => node[n].ev[i].count = 3

\* C14 witness: three intervals after C connected, with the three tables full.
C14_Witness ==
  /\ "C" \in node["B"].conns /\ "B" \in node["C"].conns
  /\ now = ConvergenceTime
  /\ \A n \in {"A", "B", "C"} : Members(n) = {"A", "B", "C"}

\* C15 (as claimed): of the chats of one sender that a node published less
\* than CHAT_WINDOW apart, there are at most CHAT_MAX.
C15_AtMostChatMaxPerInterval ==
  \A n \in Node, sender \in Ids :
    Cardinality({i \in 1..Len(node[n].emt) : node[n].emt[i][1] = sender})
      <= CHAT_MAX

\* C16: a chat with scope LOCAL or with no scope is never relayed by the node
\* that receives it, whatever its hops and whether or not it is published.
IsLocalChat(m) == m.type = "CHAT" /\ m.scope \in {"", "LOCAL"}

C16_LocalChatNeverRelayed ==
  [][\A n \in Node :
       (node'[n].op = "data" /\ Len(node'[n].inp) = 1
          /\ IsLocalChat(node'[n].inp[1]))
         => /\ RelayWrites(node'[n]) = {}
            /\ node'[n].rel1 = node[n].rel1
            /\ node'[n].bloom = node[n].bloom]_vars

\* C16 witness: a LOCAL chat below the hop limit was published by a node that
\* has another open socket, and nothing was written.
C16_Witness ==
  \E n \in Node :
    /\ node[n].op = "data"
    /\ Len(node[n].inp) = 1
    /\ IsLocalChat(node[n].inp[1])
    /\ underHopLimit(node[n].inp[1].hops)
    /\ ChatEvents(node[n], node[n].inp[1]) # {}
    /\ node[n].conns \ {node[n].src} # {}
    /\ node[n].wr = <<>>

\* C17: a LEAVE with a signature valid under its id's key, for an id in the
\* table, removes the id and emits exactly one membership-change event; it is
\* written with hops + 1, once, to every socket except its source if hops is
\* below MAX_RELAY_HOPS and (id, "leave") is not marked in the dedup filter, and
\* to no socket otherwise.
ValidLeave(m) ==
  /\ validateMessage(m)
  /\ m.type = "LEAVE"
  /\ verifySignature(LeavePayload(m.id), m.sig, createPublicKey(m.id))

MembershipEvents(r) == {i \in 1..Len(r.ev) : r.ev[i].type = "MEMBERSHIP"}

C17_ValidLeaveRemovesAndRelays ==
  [][\A n \in Node :
       (node'[n].op = "data" /\ Len(node'[n].inp) = 1
          /\ ValidLeave(node'[n].inp[1])
          /\ node[n].peers[node'[n].inp[1].id].present)
         => LET m == node'[n].inp[1]
                dests == node[n].conns \ {node'[n].src}
                due == /\ m.hops < MAX_RELAY_HOPS
                       /\ LeaveMark(m.id) \notin node[n].bloom.cur
                       /\ LeaveMark(m.id) \notin node[n].bloom.prev
            IN /\ ~node'[n].peers[m.id].present
               /\ Cardinality(MembershipEvents(node'[n])) = 1
               /\ IF due
                  THEN /\ RelayWrites(node'[n])
                            = {[to |-> d, msg |-> Relayed(m), nl |-> TRUE,
                                kind |-> "relay"] : d \in dests}
                       /\ Len(node'[n].wr) = Cardinality(dests)
                  ELSE node'[n].wr = <<>>]_vars

\* C17 witness: a valid LEAVE for an id that had been removed by a LEAVE, had
\* joined again and was removed again, this time without a relay because the
\* dedup filter still held (id, "leave").
C17_Witness ==
  \E n \in Node :
    /\ node[n].op = "data"
    /\ Len(node[n].inp) = 1
    /\ ValidLeave(node[n].inp[1])
    /\ node[n].inp[1].hops = 0
    /\ node[n].inp[1].id \in node[n].left
    /\ ~node[n].peers[node[n].inp[1].id].present
    /\ MembershipEvents(node[n]) # {}
    /\ node[n].conns \ {node[n].src} # {}
    /\ node[n].wr = <<>>

\* C18: a LEAVE for an id that is not in the peer table changes nothing: the
\* peer table, the dedup filter and the socket bindings stay as they were, no
\* membership-change is emitted, nothing is written, and invalidSig is not
\* incremented whatever the signature; the standalone handler, given the same
\* LEAVE in the same state, changes nothing either.
C18_LeaveForAbsentIdIsNoOp ==
  [][\A n \in Node :
       (node'[n].op = "data" /\ Len(node'[n].inp) = 1
          /\ node'[n].inp[1].type = "LEAVE"
          /\ ~node[n].peers[node'[n].inp[1].id].present)
         => /\ node'[n].peers = node[n].peers
            /\ node'[n].bloom = node[n].bloom
            /\ node'[n].peerId = node[n].peerId
            /\ node'[n].left = node[n].left
            /\ node'[n].ev = <<>>
            /\ node'[n].wr = <<>>
            /\ "invalidSig" \notin node'[n].diag
            /\ legacyHandleMessage(Quiet(node[n]), node'[n].inp[1],
                                   node'[n].src, now) = Quiet(node[n])]_vars

\* C18 witness: a LEAVE whose signature is under another key, for an id that is
\* not in the table, was handled by a node with another open socket.
C18_Witness ==
  \E n \in Node :
    /\ node[n].op = "data"
    /\ Len(node[n].inp) = 1
    /\ node[n].inp[1].type = "LEAVE"
    /\ ~verifySignature(LeavePayload(node[n].inp[1].id), node[n].inp[1].sig,
                        createPublicKey(node[n].inp[1].id))
    /\ ~node[n].peers[node[n].inp[1].id].present
    /\ "leaveMessages" \in node[n].diag
    /\ "invalidSig" \notin node[n].diag
    /\ node[n].conns \ {node[n].src} # {}

\* C19: when a socket closes whose peerId is bound to an id in the peer table,
\* that id is removed and a membership-change is emitted; when the socket has
\* no bound peerId, or one that is not in the table, the table is unchanged.
C19_CloseRemovesBoundPeer ==
  [][\A n \in Node : \A m \in node[n].conns \ node'[n].conns :
       node'[n].op = "close"
         => LET bound == node[n].peerId[m]
            IN IF bound # NoId /\ node[n].peers[bound].present
               THEN /\ node'[n].peers = [node[n].peers EXCEPT ![bound] = NoPeer]
                    /\ MembershipEvents(node'[n]) # {}
               ELSE node'[n].peers = node[n].peers]_vars

\* C19 witness: after one heartbeat of A on a socket and the close of a socket,
\* A, never removed by a LEAVE, is out of the table and the count reported is 1,
\* with the other socket still open.
C19_Witness ==
  \E n \in Node :
    /\ node[n].op = "close"
    /\ quota.ev = MaxEvents - 2
    /\ node[n].hi["A"] >= 0 /\ "A" \notin node[n].left
    /\ ~node[n].peers["A"].present
    /\ node[n].conns # {}
    /\ \E e \in Range(node[n].ev) : e.type = "MEMBERSHIP" /\ e.count = 1

\* C20 (as claimed): every message a node writes to a peer socket carries a
\* hops in 0..MAX_RELAY_HOPS, and every relayed copy is the message received
\* with hops + 1 and every other field as received.
C20_TransmittedHopsInRange ==
  \A n \in Node :
    /\ \A w \in Range(node[n].wr) : w.msg.hops \in 0..MAX_RELAY_HOPS
    /\ \A w \in RelayWrites(node[n]) :
         \E i \in 1..Len(node[n].inp) : w.msg = Relayed(node[n].inp[i])

\* C21 (as claimed): a message whose hops is a number outside
\* 0..MAX_RELAY_HOPS changes nothing at the node that receives it and is not
\* relayed.
C21_OutOfRangeHopsDropped ==
  [][\A n \in Node :
       (node'[n].op = "data" /\ Len(node'[n].inp) = 1
          /\ IsNumber(node'[n].inp[1].hops)
          /\ node'[n].inp[1].hops \notin 0..MAX_RELAY_HOPS)
         => /\ node'[n].peers = node[n].peers
            /\ node'[n].peerId = node[n].peerId
            /\ node'[n].bloom = node[n].bloom
            /\ node'[n].rate = node[n].rate
            /\ node'[n].ev = <<>>
            /\ node'[n].wr = <<>>]_vars

\* C22: the peer table never holds more than MAX_PEERS records. A verified
\* heartbeat of an id that is not in a full table is dropped: the table and the
\* socket bindings stay as they were and nothing is relayed. A verified
\* heartbeat with a higher seq of an id that is in a full table is processed:
\* the id's record takes the new seq.
C22_TableWithinCap ==
  [][\A n \in Node :
       /\ size(node'[n]) <= MAX_PEERS
       /\ (node'[n].op = "data" /\ Len(node'[n].inp) = 1
             /\ Verified(node'[n].inp[1]) /\ size(node[n]) = MAX_PEERS)
            => LET m == node'[n].inp[1]
                   stored == node[n].peers[m.id]
               IN IF ~stored.present
                  THEN /\ node'[n].peers = node[n].peers
                       /\ node'[n].peerId = node[n].peerId
                       /\ node'[n].bloom = node[n].bloom
                       /\ node'[n].wr = <<>>
                  ELSE m.seq > stored.seq
                         => /\ node'[n].peers[m.id].present
                            /\ node'[n].peers[m.id].seq = m.seq]_vars

\* C22 witness: a verified direct heartbeat of an id that is not in the table
\* was handled by a node whose table holds MAX_PEERS records and which has
\* another open socket.
C22_Witness ==
  \E n \in Node :
    /\ node[n].op = "data"
    /\ Len(node[n].inp) = 1
    /\ Verified(node[n].inp[1])
    /\ node[n].inp[1].hops = 0
    /\ ~node[n].peers[node[n].inp[1].id].present
    /\ size(node[n]) = MAX_PEERS
    /\ node[n].conns \ {node[n].src} # {}

\* C23: a GLOBAL chat with a valid id and signature and |now - timestamp|
\* above CHAT_FRESHNESS is neither published nor relayed and leaves the dedup
\* filter and the rate-limit records as they were; with |now - timestamp| equal
\* to CHAT_FRESHNESS it is accepted: unless already seen or over the sender's
\* rate limit, it is published, and relayed when below the hop limit.
SignedGlobalChat(m) ==
  /\ validateMessage(m)
  /\ m.type = "CHAT" /\ m.scope = "GLOBAL"
  /\ m.id = ChatId(m.sender, m.content, m.timestamp)
  /\ verifySignature(ChatPayload(m.id), m.sig, createPublicKey(m.sender))

C23_FreshnessBoundary ==
  [][\A n \in Node :
       (node'[n].op = "data" /\ Len(node'[n].inp) = 1
          /\ SignedGlobalChat(node'[n].inp[1]))
         => LET m == node'[n].inp[1]
                age == Abs(now - m.timestamp)
            IN /\ age > CHAT_FRESHNESS
                    => /\ ChatEvents(node'[n], m) = {}
                       /\ node'[n].wr = <<>>
                       /\ node'[n].bloom = node[n].bloom
                       /\ node'[n].rate = node[n].rate
               /\ (age = CHAT_FRESHNESS /\ ~hasRelayed(node[n], ChatMark(m.id))
                     /\ Counted(node[n], m.sender, now) < CHAT_MAX)
                    => /\ ChatEvents(node'[n], m) # {}
                       /\ m.hops < MAX_RELAY_HOPS
                            => RelayDests(node'[n], m)
                                 = node[n].conns \ {node'[n].src}]_vars

\* C23 witness: a chat exactly CHAT_FRESHNESS old was published and relayed to
\* the other socket, at a time other than 0.
C23_Witness ==
  \E n \in Node :
    /\ node[n].op = "data"
    /\ Len(node[n].inp) = 1
    /\ SignedGlobalChat(node[n].inp[1])
    /\ now > 0
    /\ now - node[n].inp[1].timestamp = CHAT_FRESHNESS
    /\ ChatEvents(node[n], node[n].inp[1]) # {}
    /\ RelayDests(node[n], node[n].inp[1]) # {}

\* C24: a chat whose content has MAX_CONTENT characters is accepted and one
\* with a character more is rejected. At the local endpoint the first, with a
\* scope the endpoint knows and the limiter open, is answered 200 and sent to
\* every open socket and to the Event Bus, and the second is answered 400
\* "Invalid content" and neither sent nor published. Inbound, the first, built
\* and signed by its sender, is published unless seen before or over the
\* sender's rate limit, and the second changes no state, is not published and
\* not relayed.
Sent(r) == {w.to : w \in {x \in Range(r.wr) : x.kind = "chat"}}

C24_ContentLengthBoundary ==
  [][\A n \in Node :
       /\ (node'[n].op = "post" /\ node'[n].http.status # 429)
            => LET q == node'[n].http
               IN /\ (Len(q.content) = MAX_CONTENT
                        /\ q.scope \in {"", "LOCAL", "GLOBAL"})
                       => /\ q.status = 200
                          /\ Sent(node'[n]) = node[n].conns
                          /\ \E e \in Range(node'[n].ev) :
                               e.type = "CHAT" /\ e.msg.content = q.content
                  /\ Len(q.content) = MAX_CONTENT + 1
                       => /\ q.status = 400 /\ q.error = "Invalid content"
                          /\ node'[n].wr = <<>>
                          /\ node'[n].ev = <<>>
       /\ (node'[n].op = "data" /\ Len(node'[n].inp) = 1
             /\ node'[n].inp[1].type = "CHAT")
            => LET m == node'[n].inp[1]
               IN /\ (Len(m.content) = MAX_CONTENT /\ SignedGlobalChat(m)
                        /\ chatFresh(m, now)
                        /\ ~hasRelayed(node[n], ChatMark(m.id))
                        /\ Counted(node[n], m.sender, now) < CHAT_MAX)
                       => ChatEvents(node'[n], m) # {}
                  /\ Len(m.content) = MAX_CONTENT + 1
                       => /\ node'[n].peers = node[n].peers
                          /\ node'[n].bloom = node[n].bloom
                          /\ node'[n].rate = node[n].rate
                          /\ node'[n].peerId = node[n].peerId
                          /\ node'[n].ev = <<>>
                          /\ node'[n].wr = <<>>
                          /\ node'[n].diag = {}]_vars

\* C24 witness: a local submission with MAX_CONTENT characters was answered 200
\* and written to two open sockets.
C24_Witness ==
  \E n \in Node :
    /\ node[n].op = "post"
    /\ Len(node[n].http.content) = MAX_CONTENT
    /\ node[n].http.status = 200
    /\ Cardinality(Sent(node[n])) = 2

\* C25: a message that fails validation is dropped with no effect: the node is
\* as it was (peer table, dedup filter, rate-limit records, socket bindings),
\* no diagnostics counter is incremented, nothing is written and nothing is
\* emitted.
C25_InvalidMessageDropped ==
  [][\A n \in Node :
       (node'[n].op = "data" /\ Len(node'[n].inp) = 1
          /\ Malformed(node'[n].inp[1]))
         => node'[n] = [Begin(node[n], "data") EXCEPT
                          !.inp = <<node'[n].inp[1]>>,
                          !.src = node'[n].src]]_vars

\* C25 witness: a heartbeat of A with its proof of work and its signature and
\* with a key outside the allowlist was handled by a node that does not know A
\* and has another open socket.
C25_Witness ==
  \E n \in Node :
    /\ node[n].op = "data"
    /\ Len(node[n].inp) = 1
    /\ node[n].inp[1].extra
    /\ Verified(node[n].inp[1])
    /\ ~node[n].peers[node[n].inp[1].id].present
    /\ node[n].conns \ {node[n].src} # {}
    /\ node[n].diag = {}

\* C26 (as claimed): every message a node writes to a peer socket, the hello
\* included, is terminated by a newline, so that what is waiting on a stream is
\* a sequence of complete lines.
C26_WritesNewlineTerminated ==
  /\ \A n \in Node : \A w \in Range(node[n].wr) : w.nl
  /\ \A c \in Node \X Node : \A e \in Range(chan[c]) : e.nl

\* C27: a termination signal makes the node write LEAVE{id = me, hops = 0},
\* newline-terminated, to every socket it holds open and arm the exit SHUTDOWN_GRACE
\* ms ahead; from then on the node stays in its grace period until the process
\* exits with code 0, exactly at the deadline: time never passes the deadline
\* with the node still alive, and nothing the peers do or fail to do delays it.
C27_ShutdownTerminates ==
  [][\A n \in Node :
       /\ node'[n].op = "shutdown" =>
            /\ node[n].phase = "run"
            /\ node'[n].phase = "leaving"
            /\ node'[n].exitAt = now + SHUTDOWN_GRACE
            /\ \A m \in node[n].conns :
                 \E w \in Range(node'[n].wr) :
                   /\ w.to = m /\ w.nl
                   /\ w.msg.type = "LEAVE" /\ w.msg.id = n /\ w.msg.hops = 0
       /\ node[n].phase = "leaving" =>
            /\ now' <= node[n].exitAt
            /\ \/ node'[n].phase = "leaving" /\ node'[n].exitAt = node[n].exitAt
               \/ node'[n].op = "exit"
       /\ node'[n].op = "exit" =>
            /\ node[n].phase = "leaving"
            /\ now = node[n].exitAt
            /\ node'[n].phase = "exited"
            /\ node'[n].exitCode = 0
       /\ node'[n].exitCode # Undef => node'[n].phase = "exited"
    ]_vars

\* A has exited with code 0 while the LEAVE it wrote to B is still waiting,
\* unread, on the stream.
C27_Witness ==
  /\ node["A"].op = "exit" /\ node["A"].exitCode = 0
  /\ "A" \in node["B"].conns
  /\ \E e \in Range(chan[<<"A", "B">>]) : e.msg.type = "LEAVE" /\ e.msg.id = "A"

\* C28: a POST /api/chat that arrives while POST_MAX requests admitted less than
\* CHAT_RATE_LIMIT ms ago exist is answered 429, writes to no peer, emits
\* nothing on the Event Bus and leaves of the limiter history exactly the
\* entries that have not expired; any other request passes the rate check and
\* is recorded. So no window of CHAT_RATE_LIMIT ms that opens with an admitted
\* request holds more than POST_MAX admitted requests.
C28_LocalLimiter ==
  [][\A n \in Node :
       node'[n].op = "post" =>
         /\ IF Cardinality({i \in DOMAIN node[n].posted :
                              now - node[n].posted[i] < CHAT_RATE_LIMIT})
                 >= POST_MAX
            THEN /\ node'[n].http.status = 429
                 /\ node'[n].wr = <<>> /\ node'[n].ev = <<>>
                 /\ node'[n].posted = node[n].posted
                 /\ node'[n].chatHistory =
                      SelectSeq(node[n].chatHistory,
                                LAMBDA time : now - time < CHAT_RATE_LIMIT)
            ELSE /\ node'[n].http.status # 429
                 /\ node'[n].posted = Append(node[n].posted, now)
         /\ \A i \in DOMAIN node'[n].posted :
              Cardinality({j \in DOMAIN node'[n].posted :
                             /\ node'[n].posted[i] <= node'[n].posted[j]
                             /\ node'[n].posted[j] - node'[n].posted[i]
                                  < CHAT_RATE_LIMIT}) <= POST_MAX
    ]_vars

\* A request refused at the instant the oldest entry of the history expires:
\* five younger admitted requests remain.
C28_Witness ==
  /\ node["B"].op = "post" /\ node["B"].http.status = 429
  /\ now = CHAT_RATE_LIMIT
  /\ Len(node["B"].posted) = POST_MAX + 1
  /\ node["B"].posted[1] = 0
  /\ Len(node["B"].chatHistory) = POST_MAX

\* C29 (as claimed): handling a HEARTBEAT whose seq is not above the stored
\* seq, whose proof of work fails, whose signature is absent or does not verify,
\* or whose id is new while the table is full, leaves the peer table, every
\* socket's peerId and the dedup filter unchanged, emits no membership-change
\* and writes nothing.
C29_RejectedHeartbeatNoEffect ==
  [][\A n \in Node :
       (node'[n].op = "data" /\ Len(node'[n].inp) = 1
          /\ node'[n].inp[1].type = "HEARTBEAT"
          /\ LET m == node'[n].inp[1]
                 stored == node[n].peers[m.id]
             IN \/ stored.present /\ m.seq <= stored.seq
                \/ ~verifyPoW(m.id, m.nonce)
                \/ m.sig = NoSig
                \/ ~verifySignature(SeqPayload(m.seq), m.sig,
                                    createPublicKey(m.id))
                \/ ~stored.present /\ ~canAcceptPeer(node[n], m.id))
         => /\ node'[n].peers = node[n].peers
            /\ node'[n].peerId = node[n].peerId
            /\ node'[n].bloom = node[n].bloom
            /\ MembershipEvents(node'[n]) = {}
            /\ node'[n].wr = <<>>]_vars

\* C30 (as claimed): handling a LEAVE whose signature does not verify under
\* the key of the id it names removes nothing from the peer table, emits no
\* membership-change and writes nothing; of the counters only invalidSig and
\* leaveMessages move.
C30_UnverifiedLeaveNoEffect ==
  [][\A n \in Node :
       (node'[n].op = "data" /\ Len(node'[n].inp) = 1
          /\ node'[n].inp[1].type = "LEAVE"
          /\ ~verifySignature(LeavePayload(node'[n].inp[1].id),
                              node'[n].inp[1].sig,
                              createPublicKey(node'[n].inp[1].id)))
         => /\ node'[n].peers = node[n].peers
            /\ MembershipEvents(node'[n]) = {}
            /\ node'[n].wr = <<>>
            /\ node'[n].diag \subseteq {"invalidSig", "leaveMessages"}]_vars

\* C31 (as claimed): a node that has written its LEAVE and has not yet exited
\* writes no HEARTBEAT of its own, periodic or hello, to any socket.
C31_NoHeartbeatAfterLeave ==
  \A n \in Node :
    (node[n].phase = "leaving" /\ node[n].op # "shutdown")
      => \A w \in Range(node[n].wr) :
           ~(w.msg.type = "HEARTBEAT" /\ w.msg.id = n /\ w.kind \in {"heartbeat", "hello"})

\* C32: handling a HEARTBEAT that is accepted emits exactly one
\* membership-change if the id was not in the table before and none if it was;
\* either way the id's record then holds the heartbeat's seq and the time of
\* handling, and every other record is unchanged. The standalone handler, where
\* it stores the same heartbeat in the same state, does the same.
C32_MembershipChangeIffNew ==
  [][\A n \in Node :
       (node'[n].op = "data" /\ Len(node'[n].inp) = 1
          /\ node'[n].inp[1].type = "HEARTBEAT")
         => LET m == node'[n].inp[1]
                was == node[n].peers[m.id].present
                l == legacyHandleMessage(Quiet(node[n]), m, node'[n].src, now)
                Effect(r) ==
                  /\ Cardinality(MembershipEvents(r)) = IF was THEN 0 ELSE 1
                  /\ r.peers[m.id] = [present |-> TRUE, seq |-> m.seq,
                                      lastSeen |-> now]
                  /\ \A p \in Ids \ {m.id} : r.peers[p] = node[n].peers[p]
            IN /\ m \in node'[n].acc => Effect(node'[n])
               /\ m \notin node'[n].acc => MembershipEvents(node'[n]) = {}
               /\ m \in l.acc => Effect(l)
               /\ m \notin l.acc => MembershipEvents(l) = {}]_vars

\* C32 witness: a heartbeat of A with seq 2, A being in the table already, was
\* accepted after time had passed: A's record is refreshed and no
\* membership-change was emitted.
C32_Witness ==
  /\ node["B"].op = "data" /\ Len(node["B"].inp) = 1
  /\ node["B"].inp[1] \in node["B"].acc
  /\ node["B"].inp[1].id = "A" /\ node["B"].inp[1].seq = 2
  /\ now > 0
  /\ node["B"].peers["A"] = [present |-> TRUE, seq |-> 2, lastSeen |-> now]
  /\ MembershipEvents(node["B"]) = {}

\* C33 (as claimed): a GLOBAL chat that passes the id, freshness and signature
\* checks and is dropped because its sender is over the rate limit is marked in
\* the dedup filter when its handling ends, and is neither published nor
\* relayed.
C33_RateDroppedChatIsMarked ==
  [][\A n \in Node :
       (/\ node'[n].op = "data" /\ Len(node'[n].inp) = 1
        /\ ValidGlobalChat(node'[n].inp[1], now)
        /\ Counted(node[n], node'[n].inp[1].sender, now) >= CHAT_MAX)
         => /\ hasRelayed(node'[n], ChatMark(node'[n].inp[1].id))
            /\ node'[n].ev = <<>> /\ node'[n].wr = <<>>]_vars

\* C34 (as claimed): of the messages a data event takes from a stream, those
\* that their sender terminated with a newline are dispatched to the message
\* handler, each once and in the order sent, whatever else the event holds.
C34_TerminatedMessagesDispatched ==
  [][\A n \in Node, m \in Node :
       (node'[n].op = "data" /\ Len(chan'[<<m, n>>]) < Len(chan[<<m, n>>]))
         => LET ch == chan[<<m, n>>]
                taken == SubSeq(ch, 1, Len(ch) - Len(chan'[<<m, n>>]))
                sent == SelectSeq(taken, LAMBDA e : e.nl)
            IN SelectSeq(node'[n].inp,
                         LAMBDA x : \E i \in 1..Len(sent) : sent[i].msg = x)
                 = [i \in 1..Len(sent) |-> sent[i].msg]]_vars

\* C35: a sender's rate-limit record changes only when a chat naming that
\* sender is accepted: a LOCAL chat that arrived on the socket bound to the
\* sender, or a GLOBAL chat with the right id, a fresh timestamp, a signature
\* that verifies and no mark in the dedup filter, the sender being under the
\* limit. Its count is then one more than the count of the open window, and no
\* other sender's record changes.
C35_OnlyAcceptedChatsCounted ==
  [][\A n \in Node :
       node'[n].rate # node[n].rate
         => /\ node'[n].op = "data" /\ Len(node'[n].inp) = 1
            /\ LET m == node'[n].inp[1]
                   bound == node[n].peerId[node'[n].src]
               IN /\ m.type = "CHAT"
                  /\ \/ m.scope \in {"", "LOCAL"} /\ bound # NoId /\ bound = m.sender
                     \/ /\ ValidGlobalChat(m, now)
                        /\ ~hasRelayed(node[n], ChatMark(m.id))
                  /\ Counted(node[n], m.sender, now) < CHAT_MAX
                  /\ node'[n].rate[m.sender].count
                       = Counted(node[n], m.sender, now) + 1
                  /\ ChatEvents(node'[n], m) # {}
                  /\ \A p \in Ids \ {m.sender} :
                       node'[n].rate[p] = node[n].rate[p]]_vars

\* C35 witness: a GLOBAL chat of a sender with one chat counted already was
\* refused for its signature; the sender's count is still one.
C35_Witness ==
  \E n \in Node :
    /\ node[n].op = "data" /\ Len(node[n].inp) = 1
    /\ node[n].inp[1].type = "CHAT" /\ node[n].inp[1].scope = "GLOBAL"
    /\ node[n].inp[1].id
         = ChatId(node[n].inp[1].sender, node[n].inp[1].content,
                  node[n].inp[1].timestamp)
    /\ ~verifySignature(ChatPayload(node[n].inp[1].id), node[n].inp[1].sig,
                        createPublicKey(node[n].inp[1].sender))
    /\ "invalidSig" \in node[n].diag
    /\ node[n].rate[node[n].inp[1].sender].count = 1

\* C36 (as claimed): a node that handles a GLOBAL chat naming itself as sender,
\* come back from a peer, publishes nothing and relays nothing.
C36_OwnChatNotPublishedAgain ==
  \A n \in Node :
    node[n].op = "data"
      => \A m \in Range(node[n].inp) :
           (m.type = "CHAT" /\ m.scope = "GLOBAL" /\ m.sender = n)
             => /\ ChatEvents(node[n], m) = {}
                /\ RelayWrites(node[n]) = {}

\* C37 (as claimed): every copy of a GLOBAL chat built by B's submission
\* endpoint that a directly connected peer takes from its socket to B, the
\* clocks agreeing and the sender under the limit, is published by that peer.
C37_EveryDirectCopyAccepted ==
  \A n \in Node :
    (node[n].op = "data" /\ node[n].src = "B")
      => \A m \in Range(node[n].inp) :
           (m.type = "CHAT" /\ m.hops = 0) => ChatEvents(node[n], m) # {}

\* C37 (amended): a GLOBAL chat built by B's submission endpoint passes
\* validateMessage at a directly connected peer, carries the id the peer
\* recomputes from sender, content and timestamp and a signature the peer
\* verifies under the sender's key; the peer, its clock agreeing and the sender
\* under its limit, publishes the copy it takes from its socket to B and marks
\* it, provided it has no mark for that id yet; a copy that arrives after
\* another copy of the same chat is dropped.
C37_SubmissionAndReceptionAgree ==
  [][\A n \in Node :
       (node'[n].op = "data" /\ node'[n].src = "B")
         => \A m \in Range(node'[n].inp) :
              (m.type = "CHAT" /\ m.hops = 0)
                => /\ validateMessage(m)
                   /\ m.scope = "GLOBAL" /\ m.sender = "B"
                   /\ m.id = ChatId(m.sender, m.content, m.timestamp)
                   /\ verifySignature(ChatPayload(m.id), m.sig,
                                      createPublicKey(m.sender))
                   /\ Abs(now - m.timestamp) <= CHAT_FRESHNESS
                   /\ hasRelayed(node'[n], ChatMark(m.id))
                   /\ (/\ ~hasRelayed(node[n], ChatMark(m.id))
                       /\ Counted(node[n], m.sender, now) + Len(node'[n].inp)
                            <= CHAT_MAX)
                        => Cardinality(ChatEvents(node'[n], m)) = 1
                   /\ hasRelayed(node[n], ChatMark(m.id))
                        => ChatEvents(node'[n], m) = {}]_vars

\* C37 witness: A has taken from its socket to B a chat of the greatest
\* content length and published it.
C37_Witness ==
  /\ node["A"].op = "data" /\ node["A"].src = "B"
  /\ Len(node["A"].inp) = 1
  /\ node["A"].inp[1].type = "CHAT" /\ node["A"].inp[1].hops = 0
  /\ Len(node["A"].inp[1].content) = MAX_CONTENT
  /\ ChatEvents(node["A"], node["A"].inp[1]) # {}

\* C38: the sweep of a tick keeps, unchanged, every record whose lastSeen is
\* at most LIVENESS_TTL before the tick, the boundary included, and after every
\* tick the table holds the node's own record, refreshed by that tick.
C38_SweepKeepsLivePeers ==
  [][\A n \in Node :
       node'[n].op = "tick"
         => /\ node'[n].peers[n].present
            /\ node'[n].peers[n].lastSeen = now
            /\ \A p \in Ids \ {n} :
                 (node[n].peers[p].present
                    /\ now - node[n].peers[p].lastSeen <= LIVENESS_TTL)
                   => node'[n].peers[p] = node[n].peers[p]]_vars

\* C38 witness: a tick exactly LIVENESS_TTL after A's last accepted heartbeat
\* has left A in the table.
C38_Witness ==
  \E n \in Node :
    /\ node[n].op = "tick"
    /\ node[n].peers["A"].present
    /\ now - node[n].peers["A"].lastSeen = LIVENESS_TTL

\* C39: a valid HEARTBEAT of an id that was in the table earlier and is not
\* in it now, received on any socket with any hops and any seq, the table being
\* below MAX_PEERS, puts the id back with the heartbeat's seq and emits one
\* membership-change; so does the standalone handler in the same state.
C39_RemovedPeerReadmitted ==
  [][\A n \in Node :
       (/\ node'[n].op = "data" /\ Len(node'[n].inp) = 1
        /\ validateMessage(node'[n].inp[1]) /\ Verified(node'[n].inp[1])
        /\ node[n].hi[node'[n].inp[1].id] >= 0
        /\ ~node[n].peers[node'[n].inp[1].id].present
        /\ size(node[n]) < MAX_PEERS)
         => LET m == node'[n].inp[1]
                l == legacyHandleMessage(Quiet(node[n]), m, node'[n].src, now)
                Back(r) ==
                  /\ r.peers[m.id]
                       = [present |-> TRUE, seq |-> m.seq, lastSeen |-> now]
                  /\ Cardinality(MembershipEvents(r)) = 1
            IN Back(node'[n]) /\ Back(l)]_vars

\* C39 witness: A, removed when its socket closed, is back in the table on a
\* relayed heartbeat whose seq is below the seq it had before.
C39_Witness ==
  \E n \in Node :
    /\ node[n].op = "data" /\ Len(node[n].inp) = 1
    /\ node[n].inp[1].id = "A" /\ node[n].inp[1].hops > 0
    /\ "A" \notin node[n].conns /\ "A" \notin node[n].left
    /\ node[n].peers["A"].present
    /\ node[n].peers["A"].seq < node[n].hi["A"]
    /\ MembershipEvents(node[n]) # {}

\* C40 (as claimed): a chat that B's submission limiter admitted and that A
\* takes from its socket to B without delay is published by A, unless A refuses
\* it for a reason other than its rate limit (a LOCAL chat on a socket not yet
\* bound to B, a GLOBAL chat already marked).
C40_AdmittedAtOriginAdmittedAtNeighbour ==
  [][(node'["A"].op = "data" /\ node'["A"].src = "B")
       => \A m \in Range(node'["A"].inp) :
            (/\ m.type = "CHAT" /\ m.sender = "B" /\ m.hops = 0
             /\ m.timestamp = now
             /\ m.scope = "LOCAL" => node["A"].peerId["B"] = "B"
             /\ m.scope = "GLOBAL" => ~hasRelayed(node["A"], ChatMark(m.id)))
              => ChatEvents(node'["A"], m) # {}]_vars

====
